---------------------------- MODULE Spec2Model ----------------------------
(***************************************************************************)
(* Broker connector and derived-metric layer of momentum_analysis.         *)
(*                                                                         *)
(* The module holds one state machine per component, over one set of       *)
(* variables; each specification drives one component and leaves the       *)
(* variables of the others at their initial values:                        *)
(*                                                                         *)
(*   SpecWorker  IBKRConnectorReal: callers, the single-worker executor    *)
(*               and the vendor client (ibkr_connector.py)                 *)
(*   SpecRL      RateLimiter.acquire used by one caller (futu_connector.py)*)
(*   SpecIV      FutuConnector.fetch_iv_terms: batch loop, retry wrapper   *)
(*               and the per-symbol pipeline                               *)
(*   SpecOI      FutuConnector.batch_compute_delta_oi, one call at a time  *)
(*   SpecOIDaily the same, with one input and no bound on the calls        *)
(*   SpecOIConc  batch_compute_delta_oi called by two threads, with the    *)
(*               lock-protected load and save as separate steps            *)
(***************************************************************************)
EXTENDS Integers, Sequences, FiniteSets, TLC

\* Python's None, as a result value.
None == "None"
\* Optional[int]: Null is None, Some(v) is the int v.
Null == <<>>
Some(v) == <<v>>
\* No thread (an unset thread id) and no frame (a thread running no body).
NoThread == <<"none", 0>>
NoFrame == [caller |-> NoThread, op |-> "none", stage |-> "none"]

(***************************************************************************)
(* Bounds of the model.                                                    *)
(***************************************************************************)
NumCallers == 2          \* caller threads of the IBKR connector
MaxCalls == 2            \* public calls the caller threads make in all
NumRLCallers == 2        \* threads sharing one RateLimiter
NumOIThreads == 2        \* threads calling batch_compute_delta_oi
MaxQuota == 2            \* largest max_calls of a RateLimiter
MaxPeriod == 3           \* largest period_seconds of a RateLimiter, in ticks
MaxTime == 8             \* last tick of the clock
MaxAcquires == 5         \* acquire() calls recorded by one RateLimiter
MaxDay == 10             \* last calendar day of the OI cache's clock
MaxOICalls == 3          \* batch_compute_delta_oi calls with arbitrary input
MaxConcTime == 4         \* clock ticks explored with concurrent acquire() calls
MaxConcAcquires == 3     \* recorded calls after which no concurrent acquire() starts
MaxInstances == 3        \* DataOrchestrator objects created by get_orchestrator
MaxSessions == 3         \* vendor sessions opened per vendor
MaxChunks == 3           \* most snapshot requests of one _fetch_snapshot_map call
MaxPoints == 3           \* longest list of points given to _interpolate_iv
MaxContracts == 3        \* contracts of one expiration given to _pick_atm_iv
MaxCollectDays == 62     \* largest max_days of _collect_expirations called on its own
MaxWrapperRetries == 6   \* largest max_retries of the retry wrapper called on its own
MaxRetries == 2          \* largest max_retries of fetch_iv_terms

(***************************************************************************)
(* Program constants.                                                      *)
(***************************************************************************)
max_workers == 1         \* ThreadPoolExecutor(max_workers=1)
Epsilon == 1             \* the 0.01 s acquire() adds to its sleep: one tick
window_days == 30        \* _collect_expirations: window_days = 30
chunk_size == 400        \* _fetch_snapshot_map: chunk_size = 400
max_backoff == 30        \* retry wrapper: min(30.0, 2 ** attempt)

VARIABLES
    \* ---- IBKRConnectorReal ----
    pc,                \* caller thread -> "idle" | "waiting" | "inline"
    ncalls,            \* public calls made so far
    last_result,       \* caller thread -> value returned by its last call
    executor_queue,    \* ThreadPoolExecutor work queue: Seq of [caller, op]
    exec,              \* thread -> frame of the operation body it executes, or NoFrame
    worker_thread_id,  \* self._worker_thread_id
    ib,                \* self.ib: 0 for None, or the number of the client instance
    ib_session,        \* ib.isConnected() of the current client instance
    connected,         \* self._connected
    ib_created,        \* client instances created so far (_IB() calls)
    ib_dials,          \* vendor connect() calls made so far
    composite,         \* caller thread -> public calls left in its composite operation
    last_op,           \* caller thread -> the public method it called last
    \* ---- RateLimiter ----
    rl_max_calls,      \* self.max_calls
    rl_period,         \* self.period_seconds, in ticks
    clock,             \* time.time(), in ticks
    calls,             \* self.calls: the deque of recorded timestamps
    rl_pc,             \* thread -> its place in acquire()
    rl_now,            \* thread -> the local `now` of its acquire()
    rl_wake,           \* thread -> the time its time.sleep() ends
    admitted,          \* every timestamp ever appended to self.calls
    \* ---- OI cache of FutuConnector ----
    day,               \* the calendar day datetime.now() falls on
    oi_file,           \* oi_cache.json: <<>> when absent, else <<cache>>
    cache_lock,        \* CACHE_LOCK: the thread holding it, or NoThread
    oi_pc,             \* thread -> its place in batch_compute_delta_oi
    oi_input,          \* thread -> symbol_to_oi of its call, as a list of items
    oi_local,          \* thread -> the local `cache` of its call
    oi_before,         \* thread -> the file as its call found it
    oi_results,        \* thread -> the map its call returned
    oi_today,          \* thread -> the day of its call (0: no call yet)
    oi_loads,          \* thread -> times its call read the file
    oi_saves,          \* thread -> times its call wrote the file
    oi_last_write,     \* symbol -> the day of the last call that wrote it (0: none)
    oi_ncalls,         \* calls made so far
    \* ---- FutuConnector.fetch_iv_terms ----
    quote_ctx,         \* self.quote_ctx: "None" or "open"
    futu_connected,    \* self._connected
    iv_pc,             \* "idle" | "symbol" | "backoff" | "returned" | "raised"
    iv_symbols,        \* symbols_list
    iv_max_days,       \* max_days
    iv_max_retries,    \* max_retries
    iv_idx,            \* index of the symbol in work (enumerate, from 1)
    iv_attempt,        \* `attempt` of the retry wrapper for that symbol
    iv_results,        \* results: symbol -> IVTermResult
    iv_log,            \* the attempts made so far for that symbol, in order
    iv_sleeps,         \* the backoff sleeps made so far for that symbol
    iv_wrapper,        \* how the retry wrapper ended for each symbol done
    \* ---- _interpolate_iv and _fetch_snapshot_map, called on their own ----
    it_points,         \* points: list of <<dte, iv>>
    it_target,         \* target_day
    it_result,         \* the value returned
    it_done,           \* whether _interpolate_iv has returned
    sn_codes,          \* the option codes of the expirations, in order
    sn_responses,      \* what the vendor does with each snapshot request
    sn_result,         \* [raised, snapshot_map, requests] of the call
    sn_done,           \* whether _fetch_snapshot_map has ended
    sn_events,         \* the limiter acquires and snapshot requests made, in order
    \* ---- DataOrchestrator and the vendor sessions of the process ----
    orch_connector,    \* per vendor: self._ibkr / self._futu is not None
    broker_status,     \* per vendor: self._broker_status[v].is_connected
    conn_session,      \* per vendor: the session the current connector's
                       \* client (self.ib / self.quote_ctx) holds, 0 for none
    conn_connected,    \* per vendor: self._connected of the current connector
    open_sessions,     \* per vendor: the sessions open in the process
    sessions_opened,   \* per vendor: sessions opened so far
    last_call,         \* per vendor: how the latest connect_* / disconnect_*
                       \* call of the orchestrator ended
    \* ---- the module-level singleton of orchestrator.py ----
    orchestrator_instance,  \* _orchestrator_instance: 0 for None, else the
                            \* number of the DataOrchestrator object
    instances_created,      \* DataOrchestrator objects created so far
    gets,                   \* what get_orchestrator() returned since the
                            \* latest reset_orchestrator()
    retired,                \* what it returned before that reset
    \* ---- _collect_expirations called on its own ----
    ce_end_date,       \* end_date, in days from today (start_date is day 0)
    ce_window_start,   \* window_start
    ce_windows,        \* the windows worked so far: <<window_start, window_end>>
    ce_events,         \* the limiter acquires and chain requests made, in order
    ce_expirations,    \* expirations
    ce_done,           \* whether _collect_expirations has returned
    \* ---- _pick_atm_iv called on its own ----
    pa_contracts,      \* contracts: list of [code, option_type]
    pa_snapshot_map,   \* snapshot_map: code -> [delta, iv, oi]
    pa_result,         \* the value returned
    pa_done,           \* whether _pick_atm_iv has returned
    \* ---- _get_option_chain_safe called on its own ----
    gc_client,         \* what quote_ctx.get_option_chain does with each form of the request
    gc_tried,          \* the forms of the request tried so far, in order
    gc_result,         \* how the call ended: [kind, ret]
    gc_done,           \* whether _get_option_chain_safe has ended
    \* ---- the snapshot requests the vendor client receives ----
    snapshot_sent      \* the clock of every quote_ctx.get_market_snapshot call, in order

ibkrVars == <<pc, ncalls, last_result, executor_queue, exec, worker_thread_id,
              ib, ib_session, connected, ib_created, ib_dials, composite, last_op>>

rlVars == <<rl_max_calls, rl_period, clock, calls, rl_pc, rl_now, rl_wake, admitted>>

oiVars == <<day, oi_file, cache_lock, oi_pc, oi_input, oi_local, oi_before,
            oi_results, oi_today, oi_loads, oi_saves, oi_last_write, oi_ncalls>>

ivVars == <<quote_ctx, futu_connected, iv_pc, iv_symbols, iv_max_days, iv_max_retries,
            iv_idx, iv_attempt, iv_results, iv_log, iv_sleeps, iv_wrapper>>

fnVars == <<it_points, it_target, it_result, it_done,
            sn_codes, sn_responses, sn_result, sn_done, sn_events>>

orchVars == <<orch_connector, broker_status, conn_session, conn_connected,
              open_sessions, sessions_opened, last_call>>

singletonVars == <<orchestrator_instance, instances_created, gets, retired>>

ceVars == <<ce_end_date, ce_window_start, ce_windows, ce_events, ce_expirations, ce_done>>

paVars == <<pa_contracts, pa_snapshot_map, pa_result, pa_done>>

gcVars == <<gc_client, gc_tried, gc_result, gc_done>>

sqVars == <<snapshot_sent>>

vars == <<ibkrVars, rlVars, oiVars, ivVars, fnVars,
          orchVars, singletonVars, ceVars, paVars, gcVars, sqVars>>

\* What the steps of one component leave alone: the other components.
notIBKR == <<rlVars, oiVars, ivVars, fnVars, orchVars, singletonVars, ceVars, paVars, gcVars, sqVars>>
notRL == <<ibkrVars, oiVars, ivVars, fnVars, orchVars, singletonVars, ceVars, paVars, gcVars, sqVars>>
notOI == <<ibkrVars, rlVars, ivVars, fnVars, orchVars, singletonVars, ceVars, paVars, gcVars, sqVars>>
notIV == <<ibkrVars, rlVars, oiVars, fnVars, orchVars, singletonVars, ceVars, paVars, gcVars, sqVars>>
notFn == <<ibkrVars, rlVars, oiVars, ivVars, orchVars, singletonVars, ceVars, paVars, gcVars, sqVars>>
notOrch == <<ibkrVars, rlVars, oiVars, ivVars, fnVars, singletonVars, ceVars, paVars, gcVars, sqVars>>
notSingleton == <<ibkrVars, rlVars, oiVars, ivVars, fnVars, ceVars, paVars, gcVars, sqVars>>
notCE == <<ibkrVars, rlVars, oiVars, ivVars, fnVars, orchVars, singletonVars, paVars, gcVars, sqVars>>
notPA == <<ibkrVars, rlVars, oiVars, ivVars, fnVars, orchVars, singletonVars, ceVars, gcVars, sqVars>>
notGC == <<ibkrVars, rlVars, oiVars, ivVars, fnVars, orchVars, singletonVars, ceVars, paVars, sqVars>>
notSQ == <<ibkrVars, rlVars, oiVars, ivVars, fnVars, orchVars, singletonVars, ceVars, paVars, gcVars>>

(***************************************************************************)
(* IBKRConnectorReal (ibkr_connector.py)                                   *)
(***************************************************************************)
Callers == {<<"caller", i>> : i \in 1..NumCallers}
Workers == {<<"ibkr-worker", i>> : i \in 1..max_workers}
Threads == Callers \cup Workers

\* The thread that runs the host's event loop: the coroutines of
\* DataOrchestrator (get_vix, get_spy_data, ...) call the connector's public
\* methods directly, so this thread is one of the callers.
SchedulerThread == <<"caller", 1>>

\* Public methods that hand their body to _run_in_worker.
DataOps == {"get_price_data", "get_ohlcv_data", "get_current_price", "get_vix"}
ConnOps == {"connect", "disconnect", "is_connected"}
Ops == ConnOps \cup DataOps

\* Public methods that run on the calling thread and call other public
\* methods.
CompositeOps == {"get_52_week_high_low", "analyze_sector_vs_spy",
                 "batch_calculate_rel_mom", "get_spy_with_sma"}

\* analyze_sector_vs_spy: the sector's prices, then the benchmark's unless
\* the first call returned None.
AnalyzePlan == << [op |-> "get_price_data", needs_previous |-> FALSE],
                  [op |-> "get_price_data", needs_previous |-> TRUE] >>

\* The public calls a composite operation makes, in order
\* (batch_calculate_rel_mom for one symbol).
Plan(cop) ==
    CASE cop = "get_52_week_high_low" ->
             << [op |-> "get_ohlcv_data", needs_previous |-> FALSE] >>
      [] cop = "get_spy_with_sma" ->
             << [op |-> "get_ohlcv_data", needs_previous |-> FALSE] >>
      [] cop = "analyze_sector_vs_spy" -> AnalyzePlan
      [] cop = "batch_calculate_rel_mom" -> AnalyzePlan

\* The *_impl of a data operation starts with `if not self.is_connected()`.
FirstStage(op) == IF op \in DataOps THEN "check" ELSE "impl"

Frame(caller, op) == [caller |-> caller, op |-> op, stage |-> FirstStage(op)]

IBKRInit ==
    /\ pc = [c \in Callers |-> "idle"]
    /\ ncalls = 0
    /\ last_result = [c \in Callers |-> None]
    /\ executor_queue = <<>>
    /\ exec = [th \in Threads |-> NoFrame]
    /\ worker_thread_id = NoThread
    /\ ib = 0
    /\ ib_session = FALSE
    /\ connected = FALSE
    /\ ib_created = 0
    /\ ib_dials = 0
    /\ composite = [c \in Callers |-> <<>>]
    /\ last_op = [c \in Callers |-> "none"]

\* A Python bool as a result value.
Bool(b) == IF b THEN "True" ELSE "False"

\* The thread test of _run_in_worker inverted.
RunsInline_inverted(th) == worker_thread_id # th

\* _run_in_worker running every body on the calling thread.
RunsInline_always(th) == TRUE

\* _run_in_worker without its thread test: every call is submitted.
RunsInline_never(th) == FALSE

\* _run_in_worker, line 223: run inline when already on the worker thread.
RunsInline(th) == worker_thread_id = th

\* _is_connected_impl
is_connected_impl == connected /\ ib # 0 /\ ib_session

\* _connect_impl without its test for an existing connection.
already_connected_ignored == FALSE

\* _connect_impl, line 256: `if self._connected and self.ib and
\* self.ib.isConnected()`
already_connected == connected /\ ib # 0 /\ ib_session

\* _run_in_worker called by caller thread c for the body of `op`: the body
\* runs on the calling thread, or is submitted to the executor and the
\* caller waits for the future.
Dispatch(c, op) ==
    IF RunsInline(c)
    THEN /\ exec[c] = NoFrame
         /\ exec' = [exec EXCEPT ![c] = Frame(c, op)]
         /\ pc' = [pc EXCEPT ![c] = "inline"]
         /\ UNCHANGED executor_queue
    ELSE /\ executor_queue' = Append(executor_queue, [caller |-> c, op |-> op])
         /\ pc' = [pc EXCEPT ![c] = "waiting"]
         /\ UNCHANGED exec

\* A public method called by caller thread c: _run_in_worker either runs the
\* body on the calling thread or submits it to the executor and waits for the
\* future.
Call(c, op) ==
    /\ pc[c] = "idle"
    /\ composite[c] = <<>>
    /\ ncalls < MaxCalls
    /\ ncalls' = ncalls + 1
    /\ last_op' = [last_op EXCEPT ![c] = op]
    /\ Dispatch(c, op)
    /\ UNCHANGED <<last_result, worker_thread_id, ib, ib_session, connected,
                   ib_created, ib_dials, composite>>
    /\ UNCHANGED notIBKR

\* A composite operation called by caller thread c: its body starts on the
\* calling thread.
CompositeCall(c, cop) ==
    /\ pc[c] = "idle"
    /\ composite[c] = <<>>
    /\ ncalls < MaxCalls
    /\ ncalls' = ncalls + 1
    /\ last_op' = [last_op EXCEPT ![c] = cop]
    /\ composite' = [composite EXCEPT ![c] = Plan(cop)]
    /\ UNCHANGED <<pc, last_result, executor_queue, exec, worker_thread_id, ib,
                   ib_session, connected, ib_created, ib_dials>>
    /\ UNCHANGED notIBKR

\* The body of a composite operation reaches its next public call, or
\* returns early because the call before returned None.
CompositeStep(c) ==
    /\ pc[c] = "idle"
    /\ composite[c] # <<>>
    /\ composite' = [composite EXCEPT ![c] = Tail(@)]
    /\ IF Head(composite[c]).needs_previous /\ last_result[c] = None
       THEN UNCHANGED <<pc, executor_queue, exec>>
       ELSE Dispatch(c, Head(composite[c]).op)
    /\ UNCHANGED <<ncalls, last_result, worker_thread_id, ib, ib_session, connected,
                   ib_created, ib_dials, last_op>>
    /\ UNCHANGED notIBKR

\* An idle worker of the executor takes the oldest submitted task and enters
\* _run_with_thread_id, which records the worker's thread id on first use.
WorkerTake(w) ==
    /\ exec[w] = NoFrame
    /\ executor_queue # <<>>
    /\ LET task == Head(executor_queue) IN
         exec' = [exec EXCEPT ![w] = Frame(task.caller, task.op)]
    /\ executor_queue' = Tail(executor_queue)
    /\ worker_thread_id' = IF worker_thread_id = NoThread THEN w ELSE worker_thread_id
    /\ UNCHANGED <<pc, ncalls, last_result, ib, ib_session, connected,
                   ib_created, ib_dials, composite, last_op>>
    /\ UNCHANGED notIBKR

\* The body running on thread th returns `res` (future.result() of the
\* waiting thread, or the plain return of an inline call); "raised" is an
\* exception of the body, which future.result() raises again in the waiting
\* thread.  The waiting thread is a caller, or a thread whose own body made
\* a nested call.
Return(th, res, ex) ==
    /\ LET f == exec[th]
           ex1 == [ex EXCEPT ![th] = NoFrame]
       IN  IF f.caller \in Callers
           THEN /\ pc' = [pc EXCEPT ![f.caller] = "idle"]
                /\ last_result' = [last_result EXCEPT ![f.caller] = res]
                /\ exec' = ex1
           ELSE \* nested is_connected() of a data operation's body
                /\ exec' = [ex1 EXCEPT ![f.caller] =
                              [@ EXCEPT !.stage = IF res = "True" THEN "fetch" ELSE "fail"]]
                /\ UNCHANGED <<pc, last_result>>
    /\ UNCHANGED <<composite, last_op>>
    /\ UNCHANGED notIBKR

\* What happens when _connect_impl sets up and dials a new client:
\*   "create_raises"      _IB() raises in _init_ib, outside the try block
\*   "error"              ib.connect raises an Exception
\*   "event_loop_error"   ib.connect raises the event loop RuntimeError
\*   "dialled_then_error" ib.connect returns and reqMarketDataType raises
\*   "ok"                 both return
ConnectOutcomes == {"ok", "error", "event_loop_error", "dialled_then_error",
                    "create_raises"}

\* _connect_impl
connect_impl(th) ==
    /\ exec[th] # NoFrame /\ exec[th].op = "connect" /\ exec[th].stage = "impl"
    /\ IF already_connected
       THEN /\ Return(th, "True", exec)
            /\ UNCHANGED <<ib, ib_session, connected, ib_created, ib_dials>>
       ELSE \E outcome \in ConnectOutcomes :
            IF outcome = "create_raises"
            THEN \* _init_ib disconnected the old client, self.ib keeps it
                 /\ ib_session' = FALSE
                 /\ UNCHANGED <<ib, connected, ib_created, ib_dials>>
                 /\ Return(th, "raised", exec)
            ELSE \* _init_ib: disconnect a live old client, then create a
                 \* new one
                 /\ ib' = ib_created + 1
                 /\ ib_created' = ib_created + 1
                 /\ ib_dials' = ib_dials + 1
                 /\ ib_session' = (outcome \in {"ok", "dialled_then_error"})
                 /\ connected' = (outcome = "ok")
                 /\ Return(th, Bool(outcome = "ok"), exec)
    /\ UNCHANGED <<ncalls, executor_queue, worker_thread_id>>

\* _disconnect_impl
disconnect_impl(th) ==
    /\ exec[th] # NoFrame /\ exec[th].op = "disconnect" /\ exec[th].stage = "impl"
    /\ IF ib # 0 /\ ib_session
       THEN /\ ib_session' = FALSE
            /\ connected' = FALSE
       ELSE UNCHANGED <<ib_session, connected>>
    /\ Return(th, None, exec)
    /\ UNCHANGED <<ncalls, executor_queue, worker_thread_id, ib, ib_created, ib_dials>>

\* is_connected -> _is_connected_impl
is_connected_body(th) ==
    /\ exec[th] # NoFrame /\ exec[th].op = "is_connected" /\ exec[th].stage = "impl"
    /\ Return(th, Bool(is_connected_impl), exec)
    /\ UNCHANGED <<ncalls, executor_queue, worker_thread_id, ib, ib_session,
                   connected, ib_created, ib_dials>>

\* First statement of _get_price_data_impl, _get_ohlcv_data_impl,
\* _get_current_price_impl and _get_vix_impl: `if not self.is_connected()`,
\* a public method, which goes through _run_in_worker again.
NestedIsConnected(th) ==
    /\ exec[th] # NoFrame /\ exec[th].stage = "check"
    /\ IF RunsInline(th)
       THEN /\ exec' = [exec EXCEPT ![th].stage =
                          IF is_connected_impl THEN "fetch" ELSE "fail"]
            /\ UNCHANGED executor_queue
       ELSE /\ executor_queue' =
                  Append(executor_queue, [caller |-> th, op |-> "is_connected"])
            /\ exec' = [exec EXCEPT ![th].stage = "nested_wait"]
    /\ UNCHANGED <<pc, ncalls, last_result, worker_thread_id, ib, ib_session,
                   connected, ib_created, ib_dials, composite, last_op>>
    /\ UNCHANGED notIBKR

\* Not connected: the data operation logs and returns None.
DataFail(th) ==
    /\ exec[th] # NoFrame /\ exec[th].stage = "fail"
    /\ Return(th, None, exec)
    /\ UNCHANGED <<ncalls, executor_queue, worker_thread_id, ib, ib_session,
                   connected, ib_created, ib_dials>>

\* The vendor requests of a data operation (qualifyContracts,
\* reqHistoricalData / reqMktData); every exception is caught and gives None.
DataFetch(th) ==
    /\ exec[th] # NoFrame /\ exec[th].stage = "fetch"
    /\ \E res \in {"data", None} : Return(th, res, exec)
    /\ UNCHANGED <<ncalls, executor_queue, worker_thread_id, ib, ib_session,
                   connected, ib_created, ib_dials>>

IBKRNext ==
    \/ \E c \in Callers, op \in Ops : Call(c, op)
    \/ \E c \in Callers, cop \in CompositeOps : CompositeCall(c, cop)
    \/ \E c \in Callers : CompositeStep(c)
    \/ \E w \in Workers : WorkerTake(w)
    \/ \E th \in Threads : connect_impl(th)
    \/ \E th \in Threads : disconnect_impl(th)
    \/ \E th \in Threads : is_connected_body(th)
    \/ \E th \in Threads : NestedIsConnected(th)
    \/ \E th \in Threads : DataFail(th)
    \/ \E th \in Threads : DataFetch(th)

(***************************************************************************)
(* RateLimiter (futu_connector.py).  Time is counted in ticks of 0.01 s,  *)
(* the epsilon acquire() adds to its sleep.                                *)
(***************************************************************************)
RLThreads == {<<"rl", i>> : i \in 1..NumRLCallers}

RLInitWith(N, W) ==
    /\ rl_max_calls = N
    /\ rl_period = W
    /\ clock = 0
    /\ calls = <<>>
    /\ rl_pc = [t \in RLThreads |-> "idle"]
    /\ rl_now = [t \in RLThreads |-> 0]
    /\ rl_wake = [t \in RLThreads |-> 0]
    /\ admitted = <<>>

\* A limiter of any quota 1..MaxQuota per window of 1..MaxPeriod ticks.
RLInit == \E N \in 1..MaxQuota, W \in 1..MaxPeriod : RLInitWith(N, W)

\* The window test of acquire() off by one.
limit_reached_off_by_one(n, N) == n > N

\* Line 85: `if len(self.calls) >= self.max_calls`
limit_reached(n, N) == n >= N

\* Line 86: period_seconds - (now - self.calls[0]) + 0.01
sleep_seconds(now, oldest, W) == W - (now - oldest) + Epsilon

\* time.time() advances.
Tick ==
    /\ clock < MaxTime
    /\ clock' = clock + 1
    /\ UNCHANGED <<rl_max_calls, rl_period, calls, rl_pc, rl_now, rl_wake, admitted>>
    /\ UNCHANGED notRL

\* Line 78: now = time.time()
AcquireStart(t) ==
    /\ rl_pc[t] = "idle"
    /\ Len(admitted) < MaxAcquires
    /\ rl_now' = [rl_now EXCEPT ![t] = clock]
    /\ rl_pc' = [rl_pc EXCEPT ![t] = "evict"]
    /\ UNCHANGED <<rl_max_calls, rl_period, clock, calls, rl_wake, admitted>>
    /\ UNCHANGED notRL

\* Lines 81-82: one turn of the eviction loop.
AcquireEvict(t) ==
    /\ rl_pc[t] = "evict"
    /\ IF calls # <<>> /\ rl_now[t] - Head(calls) >= rl_period
       THEN /\ calls' = Tail(calls)
            /\ UNCHANGED rl_pc
       ELSE /\ rl_pc' = [rl_pc EXCEPT ![t] = "check"]
            /\ UNCHANGED calls
    /\ UNCHANGED <<rl_max_calls, rl_period, clock, rl_now, rl_wake, admitted>>
    /\ UNCHANGED notRL

\* Lines 85-89: sleep when the window is full.  time.sleep(s) returns no
\* earlier than s after it was called.
AcquireCheck(t) ==
    /\ rl_pc[t] = "check"
    /\ IF limit_reached(Len(calls), rl_max_calls)
          /\ sleep_seconds(rl_now[t], Head(calls), rl_period) > 0
       THEN /\ rl_wake' = [rl_wake EXCEPT ![t] =
                             clock + sleep_seconds(rl_now[t], Head(calls), rl_period)]
            /\ rl_pc' = [rl_pc EXCEPT ![t] = "sleep"]
       ELSE /\ rl_pc' = [rl_pc EXCEPT ![t] = "record"]
            /\ UNCHANGED rl_wake
    /\ UNCHANGED <<rl_max_calls, rl_period, clock, calls, rl_now, admitted>>
    /\ UNCHANGED notRL

\* time.sleep returns.
AcquireWake(t) ==
    /\ rl_pc[t] = "sleep"
    /\ clock >= rl_wake[t]
    /\ rl_pc' = [rl_pc EXCEPT ![t] = "record"]
    /\ UNCHANGED <<rl_max_calls, rl_period, clock, calls, rl_now, rl_wake, admitted>>
    /\ UNCHANGED notRL

\* Line 91: self.calls.append(time.time()).  `admitted` keeps every
\* timestamp ever recorded.
RecordStep(t) ==
    /\ rl_pc[t] = "record"
    /\ calls' = Append(calls, clock)
    /\ admitted' = Append(admitted, clock)
    /\ rl_pc' = [rl_pc EXCEPT ![t] = "idle"]
    /\ UNCHANGED <<rl_max_calls, rl_period, clock, rl_now, rl_wake>>

AcquireRecord(t) == RecordStep(t) /\ UNCHANGED notRL

\* One caller at a time: every step is taken by the first thread.
RLNext ==
    \/ Tick
    \/ AcquireStart(<<"rl", 1>>)
    \/ AcquireEvict(<<"rl", 1>>)
    \/ AcquireCheck(<<"rl", 1>>)
    \/ AcquireWake(<<"rl", 1>>)
    \/ AcquireRecord(<<"rl", 1>>)

\* Several threads call acquire() on the same limiter; acquire() takes no
\* lock, so their steps interleave freely.
ConcTick == clock < MaxConcTime /\ Tick
ConcAcquireStart(t) == Len(admitted) < MaxConcAcquires /\ AcquireStart(t)

RLConcNext ==
    \/ ConcTick
    \/ \E t \in RLThreads : ConcAcquireStart(t)
    \/ \E t \in RLThreads : AcquireEvict(t)
    \/ \E t \in RLThreads : AcquireCheck(t)
    \/ \E t \in RLThreads : AcquireWake(t)
    \/ \E t \in RLThreads : AcquireRecord(t)

\* Timestamps recorded in the trailing window (t - W, t].
InWindow(t) ==
    {j \in 1..Len(admitted) : admitted[j] > t - rl_period /\ admitted[j] <= t}

(***************************************************************************)
(* OI cache: FutuConnector.batch_compute_delta_oi (futu_connector.py).     *)
(*                                                                         *)
(* A call reads datetime.now() several times; the model takes the whole    *)
(* call to fall on one calendar day.  Day 1 is 2023-12-27, so the days of  *)
(* the model cross a month and a year boundary.                            *)
(***************************************************************************)
OIThreads == {<<"oi", i>> : i \in 1..NumOIThreads}
OISymbols == {"X", "Y"}
OIValues == {100000, 105000}

\* strftime('%Y-%m-%d') of day n: the zero-padded fields year, month, day.
DateStr(n) == IF n <= 5 THEN <<2023, 12, 26 + n>> ELSE <<2024, 1, n - 5>>

\* a >= b on 'YYYY-MM-DD' strings: the fields compared left to right.
str_ge(a, b) ==
    \/ a[1] > b[1]
    \/ a[1] = b[1] /\ a[2] > b[2]
    \/ a[1] = b[1] /\ a[2] = b[2] /\ a[3] >= b[3]

\* Line 592: cutoff = (now - 7 days).strftime(...)
cutoff_eight_days(n) == DateStr(n - 8)
cutoff_today(n) == DateStr(n)
cutoff(n) == DateStr(n - 7)

\* Line 604: range(1, 8)
days_ago_range_from_today == <<0, 1, 2, 3, 4, 5, 6, 7>>
days_ago_range_six == <<1, 2, 3, 4, 5, 6>>
days_ago_range == <<1, 2, 3, 4, 5, 6, 7>>

EmptyDict == [k \in {} |-> 0]
DictPut(f, k, v) == [x \in DOMAIN f \cup {k} |-> IF x = k THEN v ELSE f[x]]
DictGet(f, k, default) == IF k \in DOMAIN f THEN f[k] ELSE default
DictFilter(f, keep) == [x \in {k \in DOMAIN f : k \in keep} |-> f[x]]

\* Lines 601-608: the first date of the scan found in symbol_cache.
RECURSIVE FindYesterdayOI(_, _, _)
FindYesterdayOI(symbol_cache, n, i) ==
    IF i > Len(days_ago_range) THEN Null
    ELSE LET past_date == DateStr(n - days_ago_range[i]) IN
         IF past_date \in DOMAIN symbol_cache
         THEN Some(symbol_cache[past_date])
         ELSE FindYesterdayOI(symbol_cache, n, i + 1)

\* The None test of the loop placed after `cache[symbol] = {}`.
NullResult_after_key(st, symbol) ==
    [cache |-> IF symbol \notin DOMAIN st.cache
               THEN DictPut(st.cache, symbol, EmptyDict) ELSE st.cache,
     results |-> DictPut(st.results, symbol, <<Null, Null>>)]

\* Lines 596-598: current_oi is None.  st is [cache, results].
NullResult(st, symbol) ==
    [st EXCEPT !.results = DictPut(@, symbol, <<Null, Null>>)]

\* Lines 596-624: one turn of the loop over symbol_to_oi.items().
ProcessSymbol(st, symbol, current_oi, n) ==
    IF current_oi = Null
    THEN NullResult(st, symbol)
    ELSE LET symbol_cache == DictGet(st.cache, symbol, EmptyDict)
             yesterday_oi == FindYesterdayOI(symbol_cache, n, 1)
             delta_oi == IF yesterday_oi # Null
                         THEN Some(current_oi[1] - yesterday_oi[1]) ELSE Null
             c1 == IF symbol \notin DOMAIN st.cache
                   THEN DictPut(st.cache, symbol, EmptyDict) ELSE st.cache
             c2 == [c1 EXCEPT ![symbol] = DictPut(@, DateStr(n), current_oi[1])]
             c3 == [c2 EXCEPT ![symbol] =
                      DictFilter(@, {d \in DOMAIN @ : str_ge(d, cutoff(n))})]
         IN  [cache |-> c3,
              results |-> DictPut(st.results, symbol, <<current_oi, delta_oi>>)]

\* Lines 595-624: the loop.
RECURSIVE ProcessItems(_, _, _)
ProcessItems(st, items, n) ==
    IF items = <<>> THEN st
    ELSE ProcessItems(ProcessSymbol(st, items[1][1], items[1][2], n), Tail(items), n)

\* _load_oi_cache, lines 632-638: {} when the file is absent.
load_oi_cache(file) == IF file = <<>> THEN EmptyDict ELSE file[1]

\* symbol_to_oi, as its list of items: X with any value alone, or X and Y
\* of which one is None.
OptOI == {Null} \cup {Some(v) : v \in OIValues}
OIInputs ==
    {<<<<"X", v>>>> : v \in OptOI}
    \cup {<<<<"X", Null>>, <<"Y", Some(100000)>>>>, <<<<"X", Some(100000)>>, <<"Y", Null>>>>}

\* The inputs of the daily run: one symbol, one value.
DailyInputs == {<<<<"X", Some(100000)>>>>}

\* The symbols a call writes: those of its input with a value.
Written(items) == {items[i][1] : i \in {j \in 1..Len(items) : items[j][2] # Null}}

OIInitAt(d) ==
    /\ day = d
    /\ oi_file = <<>>
    /\ cache_lock = NoThread
    /\ oi_pc = [t \in OIThreads |-> "idle"]
    /\ oi_input = [t \in OIThreads |-> <<>>]
    /\ oi_local = [t \in OIThreads |-> EmptyDict]
    /\ oi_before = [t \in OIThreads |-> <<>>]
    /\ oi_results = [t \in OIThreads |-> EmptyDict]
    /\ oi_today = [t \in OIThreads |-> 0]
    /\ oi_loads = [t \in OIThreads |-> 0]
    /\ oi_saves = [t \in OIThreads |-> 0]
    /\ oi_last_write = [s \in OISymbols |-> 0]
    /\ oi_ncalls = 0

OIInit == OIInitAt(1)

\* Midnight passes (between calls).
NextDay ==
    /\ day < MaxDay
    /\ \A t \in OIThreads : oi_pc[t] = "idle"
    /\ day' = day + 1
    /\ UNCHANGED <<oi_file, cache_lock, oi_pc, oi_input, oi_local, oi_before,
                   oi_results, oi_today, oi_loads, oi_saves, oi_last_write, oi_ncalls>>
    /\ UNCHANGED notOI

\* batch_compute_delta_oi(symbol_to_oi) as a whole, by thread t with no
\* other thread in a call: load, loop, save, return.
BatchComputeDeltaOI(t, symbol_to_oi) ==
    /\ \A u \in OIThreads : oi_pc[u] = "idle"
    /\ cache_lock = NoThread
    /\ LET st == ProcessItems([cache |-> load_oi_cache(oi_file), results |-> EmptyDict],
                              symbol_to_oi, day)
       IN  /\ oi_file' = <<st.cache>>
           /\ oi_results' = [oi_results EXCEPT ![t] = st.results]
    /\ oi_input' = [oi_input EXCEPT ![t] = symbol_to_oi]
    /\ oi_before' = [oi_before EXCEPT ![t] = oi_file]
    /\ oi_today' = [oi_today EXCEPT ![t] = day]
    /\ oi_loads' = [oi_loads EXCEPT ![t] = 1]
    /\ oi_saves' = [oi_saves EXCEPT ![t] = 1]
    /\ oi_last_write' = [s \in OISymbols |->
                           IF s \in Written(symbol_to_oi) THEN day ELSE oi_last_write[s]]
    /\ UNCHANGED <<day, cache_lock, oi_pc, oi_local>>
    /\ UNCHANGED notOI

\* A call with any input; the model makes MaxOICalls of them.
AnyCall ==
    /\ oi_ncalls < MaxOICalls
    /\ oi_ncalls' = oi_ncalls + 1
    /\ \E symbol_to_oi \in OIInputs : BatchComputeDeltaOI(<<"oi", 1>>, symbol_to_oi)

OINext == NextDay \/ AnyCall

\* The daily run: any number of calls, each with the same one-symbol input.
DailyCall ==
    /\ \E symbol_to_oi \in DailyInputs : BatchComputeDeltaOI(<<"oi", 1>>, symbol_to_oi)
    /\ UNCHANGED oi_ncalls

OIDailyNext == NextDay \/ DailyCall

(***************************************************************************)
(* batch_compute_delta_oi called by several threads on one day: the steps  *)
(* of one call are the load under CACHE_LOCK, the loop, and the save under *)
(* CACHE_LOCK.                                                             *)
(***************************************************************************)
\* The inputs of the concurrent callers: one symbol with a value.
ConcInputs == {<<<<s, Some(v)>>>> : s \in OISymbols, v \in OIValues}

\* Thread t enters batch_compute_delta_oi.
OIStart(t) ==
    /\ oi_pc[t] = "idle"
    /\ oi_ncalls < MaxOICalls
    /\ oi_ncalls' = oi_ncalls + 1
    /\ \E symbol_to_oi \in ConcInputs : oi_input' = [oi_input EXCEPT ![t] = symbol_to_oi]
    /\ oi_pc' = [oi_pc EXCEPT ![t] = "load"]
    /\ oi_today' = [oi_today EXCEPT ![t] = day]
    /\ oi_loads' = [oi_loads EXCEPT ![t] = 0]
    /\ oi_saves' = [oi_saves EXCEPT ![t] = 0]
    /\ oi_results' = [oi_results EXCEPT ![t] = EmptyDict]
    /\ UNCHANGED <<day, oi_file, cache_lock, oi_local, oi_before, oi_last_write>>
    /\ UNCHANGED notOI

\* _load_oi_cache, line 631: `with self.CACHE_LOCK`
OILoadLock(t) ==
    /\ oi_pc[t] = "load"
    /\ cache_lock = NoThread
    /\ cache_lock' = t
    /\ oi_pc' = [oi_pc EXCEPT ![t] = "loading"]
    /\ UNCHANGED <<day, oi_file, oi_input, oi_local, oi_before, oi_results, oi_today,
                   oi_loads, oi_saves, oi_last_write, oi_ncalls>>
    /\ UNCHANGED notOI

\* _load_oi_cache, lines 632-638: read the file and release the lock.
OILoadRead(t) ==
    /\ oi_pc[t] = "loading"
    /\ cache_lock = t
    /\ oi_local' = [oi_local EXCEPT ![t] = load_oi_cache(oi_file)]
    /\ oi_before' = [oi_before EXCEPT ![t] = oi_file]
    /\ oi_loads' = [oi_loads EXCEPT ![t] = @ + 1]
    /\ cache_lock' = NoThread
    /\ oi_pc' = [oi_pc EXCEPT ![t] = "loop"]
    /\ UNCHANGED <<day, oi_file, oi_input, oi_results, oi_today, oi_saves,
                   oi_last_write, oi_ncalls>>
    /\ UNCHANGED notOI

\* Lines 591-624: the loop, on the thread's local cache.
OILoop(t) ==
    /\ oi_pc[t] = "loop"
    /\ LET st == ProcessItems([cache |-> oi_local[t], results |-> EmptyDict],
                              oi_input[t], day)
       IN  /\ oi_local' = [oi_local EXCEPT ![t] = st.cache]
           /\ oi_results' = [oi_results EXCEPT ![t] = st.results]
    /\ oi_pc' = [oi_pc EXCEPT ![t] = "save"]
    /\ UNCHANGED <<day, oi_file, cache_lock, oi_input, oi_before, oi_today, oi_loads,
                   oi_saves, oi_last_write, oi_ncalls>>
    /\ UNCHANGED notOI

\* _save_oi_cache, line 642: `with self.CACHE_LOCK`
OISaveLock(t) ==
    /\ oi_pc[t] = "save"
    /\ cache_lock = NoThread
    /\ cache_lock' = t
    /\ oi_pc' = [oi_pc EXCEPT ![t] = "saving"]
    /\ UNCHANGED <<day, oi_file, oi_input, oi_local, oi_before, oi_results, oi_today,
                   oi_loads, oi_saves, oi_last_write, oi_ncalls>>
    /\ UNCHANGED notOI

\* _save_oi_cache, lines 643-644: write the file, release the lock; the
\* call returns.
OISaveWrite(t) ==
    /\ oi_pc[t] = "saving"
    /\ cache_lock = t
    /\ oi_file' = <<oi_local[t]>>
    /\ oi_saves' = [oi_saves EXCEPT ![t] = @ + 1]
    /\ oi_last_write' = [s \in OISymbols |->
                           IF s \in Written(oi_input[t]) THEN day ELSE oi_last_write[s]]
    /\ cache_lock' = NoThread
    /\ oi_pc' = [oi_pc EXCEPT ![t] = "idle"]
    /\ UNCHANGED <<day, oi_input, oi_local, oi_before, oi_results, oi_today, oi_loads,
                   oi_ncalls>>
    /\ UNCHANGED notOI

OIConcNext ==
    \/ \E t \in OIThreads : OIStart(t)
    \/ \E t \in OIThreads : OILoadLock(t)
    \/ \E t \in OIThreads : OILoadRead(t)
    \/ \E t \in OIThreads : OILoop(t)
    \/ \E t \in OIThreads : OISaveLock(t)
    \/ \E t \in OIThreads : OISaveWrite(t)

(***************************************************************************)
(* IV term structure: FutuConnector.fetch_iv_terms (futu_connector.py).    *)
(*                                                                         *)
(* Days are counted from today, so an expiry date is its number of days to *)
(* expiry.  An IV or a delta is an integer count of hundredths: 20 is      *)
(* 0.20, 2500 is 25.00.  The vendor knows three contracts.                 *)
(***************************************************************************)
ContractList ==
    << [code |-> "C1", option_type |-> "CALL", dte |-> 5,  delta |-> 45,  iv |-> 20,   oi |-> 10],
       [code |-> "P1", option_type |-> "PUT",  dte |-> 5,  delta |-> -50, iv |-> 22,   oi |-> 5],
       [code |-> "C2", option_type |-> "CALL", dte |-> 20, delta |-> 60,  iv |-> 2500, oi |-> 20] >>

IVSymbolLists == {<<>>, <<"A">>, <<"A", "B">>, <<"A", "A">>}
IVMaxDays == {0, 30}

\* What the vendor does with one get_option_chain request, and with one
\* get_market_snapshot request.
ChainResponses == {"raise", "fail", "ok"}
SnapshotResponses == {"raise", "fail", "oi_only", "full"}

Min(a, b) == IF a <= b THEN a ELSE b
Abs(x) == IF x < 0 THEN -x ELSE x

\* IVTermResult
IVTermResult(iv7, iv30, iv60, iv90, total_oi) ==
    [iv7 |-> iv7, iv30 |-> iv30, iv60 |-> iv60, iv90 |-> iv90, total_oi |-> total_oi]
DefaultResult == IVTermResult(Null, Null, Null, Null, Null)
is_valid(r) == r.iv7 # Null \/ r.iv30 # Null \/ r.iv60 # Null \/ r.iv90 # Null

\* FutuConnector.is_connected
futu_is_connected == futu_connected /\ quote_ctx # "None"

\* The end of a window without the horizon as its ceiling.
window_end_uncapped(window_start, end_date) == window_start + window_days

\* Line 372: min(window_start + timedelta(days=window_days), end_date)
window_end_of(window_start, end_date) == Min(window_start + window_days, end_date)

\* Line 400: window_start = window_end + timedelta(days=1)
next_window_start(window_end) == window_end + 1

\* _collect_expirations, lines 369-400: the windows of [0, max_days].
RECURSIVE WindowsFrom(_, _)
WindowsFrom(window_start, end_date) ==
    IF window_start > end_date THEN <<>>
    ELSE LET window_end == window_end_of(window_start, end_date) IN
         <<<<window_start, window_end>>>> \o WindowsFrom(next_window_start(window_end), end_date)

\* _collect_expirations, line 374: one request per window and option type.
RECURSIVE RequestsOf(_)
RequestsOf(windows) ==
    IF windows = <<>> THEN <<>>
    ELSE << [window |-> windows[1], option_type |-> "CALL"],
            [window |-> windows[1], option_type |-> "PUT"] >> \o RequestsOf(Tail(windows))

\* The records of an accepted chain request: the vendor's contracts of the
\* type asked for that expire in the window.
IsInRequest(c, req) ==
    /\ c.option_type = req.option_type
    /\ req.window[1] <= c.dte /\ c.dte <= req.window[2]
ChainRecords(req) == SelectSeq(ContractList, LAMBDA c : IsInRequest(c, req))

\* expirations: Dict[str, List[OptionContract]] in insertion order, as a
\* list of <<expiry, contracts>>.
RECURSIVE DictAppend(_, _, _)
DictAppend(od, key, item) ==
    IF od = <<>> THEN << <<key, <<item>>>> >>
    ELSE IF od[1][1] = key THEN << <<key, Append(od[1][2], item)>> >> \o Tail(od)
    ELSE <<od[1]>> \o DictAppend(Tail(od), key, item)

\* Lines 387-393: the records of one request added to expirations.
RECURSIVE AddRecords(_, _, _)
AddRecords(expirations, records, option_type) ==
    IF records = <<>> THEN expirations
    ELSE AddRecords(DictAppend(expirations, records[1].dte,
                               [code |-> records[1].code, option_type |-> option_type]),
                    Tail(records), option_type)

\* Every chain request of a symbol returns nothing, a non-OK status, or
\* raises.
VendorHasNothing(requests, responses) ==
    \A i \in 1..Len(requests) : responses[i] # "ok" \/ ChainRecords(requests[i]) = <<>>

\* _collect_expirations, lines 376-400: the records one request adds; a
\* request that raises or returns a non-OK status is logged and adds none.
chain_records_despite_failure(request, response) == ChainRecords(request)
chain_records(request, response) ==
    IF response = "ok" THEN ChainRecords(request) ELSE <<>>

\* _collect_expirations
RECURSIVE collect_expirations(_, _, _, _)
collect_expirations(expirations, requests, responses, i) ==
    IF i > Len(requests) THEN expirations
    ELSE LET records == chain_records(requests[i], responses[i]) IN
         collect_expirations(AddRecords(expirations, records, requests[i].option_type),
                             requests, responses, i + 1)

\* _fetch_snapshot_map, lines 439-441
RECURSIVE CodesOf(_)
CodesOf(expirations) ==
    IF expirations = <<>> THEN <<>>
    ELSE [i \in 1..Len(expirations[1][2]) |-> expirations[1][2][i].code]
         \o CodesOf(Tail(expirations))

\* range(0, len(codes), chunk_size)
NumChunks(codes) == (Len(codes) + chunk_size - 1) \div chunk_size
Chunk(codes, k) == SubSeq(codes, (k - 1) * chunk_size + 1, Min(k * chunk_size, Len(codes)))

\* A contract of the vendor outside ContractList: an at-the-money call.
OtherContract(code) ==
    [code |-> code, option_type |-> "CALL", dte |-> 5, delta |-> 50, iv |-> 20, oi |-> 1]

ContractOf(code) ==
    LET known == {ContractList[i] : i \in 1..Len(ContractList)} IN
    IF \E c \in known : c.code = code THEN CHOOSE c \in known : c.code = code
    ELSE OtherContract(code)

\* The snapshot record of a contract in an answered request.
SnapshotRecord(code, response) ==
    IF response = "full"
    THEN [delta |-> Some(ContractOf(code).delta), iv |-> Some(ContractOf(code).iv),
          oi |-> Some(ContractOf(code).oi)]
    ELSE [delta |-> Null, iv |-> Null, oi |-> Some(ContractOf(code).oi)]

\* Lines 453-457: for rec in records: snapshot_map[code] = rec;
\* the answer holds one record per requested code.
PutRecords(snapshot_map, batch, response) ==
    LET answered == {batch[i] : i \in 1..Len(batch)} IN
    [code \in DOMAIN snapshot_map \cup answered |->
        IF code \in answered THEN SnapshotRecord(code, response)
        ELSE snapshot_map[code]]

\* _fetch_snapshot_map, lines 446-459: one turn of the loop, the request
\* for chunk k.  st is [raised, snapshot_map, requests]; a non-OK chunk is
\* skipped, a request that raises ends the call with its exception.
snapshot_chunk(st, codes, response, k) ==
    IF response = "raise"
    THEN [st EXCEPT !.raised = TRUE, !.requests = @ + 1]
    ELSE [st EXCEPT !.requests = @ + 1,
                    !.snapshot_map = IF response = "fail" THEN @
                                     ELSE PutRecords(@, Chunk(codes, k), response)]

\* _fetch_snapshot_map
RECURSIVE fetch_snapshot_map(_, _, _, _)
fetch_snapshot_map(st, codes, responses, k) ==
    IF k > NumChunks(codes) \/ st.raised THEN st
    ELSE fetch_snapshot_map(snapshot_chunk(st, codes, responses[k], k),
                            codes, responses, k + 1)

\* _normalize_iv: a value of at most 1.5 is a fraction.
normalize_iv(iv) == IF iv <= 150 THEN iv * 100 ELSE iv

\* The comparison of _pick_atm_iv that also replaces the best on a tie.
closer_or_equal(diff, best_diff) == diff <= best_diff

\* Line 513: `diff < best_diff`
closer(diff, best_diff) == diff < best_diff

\* _pick_atm_iv, lines 498-517; best is <<best_iv, best_diff>>.
RECURSIVE pick_atm_iv(_, _, _, _)
pick_atm_iv(contracts, snapshot_map, i, best) ==
    IF i > Len(contracts) THEN best[1]
    ELSE LET contract == contracts[i]
             skip == \/ contract.option_type # "CALL"
                     \/ contract.code \notin DOMAIN snapshot_map
                     \/ snapshot_map[contract.code].delta = Null
                     \/ snapshot_map[contract.code].iv = Null
         IN  IF skip THEN pick_atm_iv(contracts, snapshot_map, i + 1, best)
             ELSE LET diff == Abs(snapshot_map[contract.code].delta[1] - 50) IN
                  IF best[2] = Null \/ closer(diff, best[2][1])
                  THEN pick_atm_iv(contracts, snapshot_map, i + 1,
                                   <<Some(normalize_iv(snapshot_map[contract.code].iv[1])),
                                     Some(diff)>>)
                  ELSE pick_atm_iv(contracts, snapshot_map, i + 1, best)

\* _build_dte_points, lines 472-484, before the sort.
RECURSIVE PointsOf(_, _)
PointsOf(expirations, snapshot_map) ==
    IF expirations = <<>> THEN <<>>
    ELSE LET dte == expirations[1][1]
             chosen_iv == pick_atm_iv(expirations[1][2], snapshot_map, 1, <<Null, Null>>)
             rest == PointsOf(Tail(expirations), snapshot_map)
         IN  IF dte <= 0 \/ chosen_iv = Null THEN rest
             ELSE << <<dte, chosen_iv[1]>> >> \o rest

\* _build_dte_points: points.sort(key=dte)
build_dte_points(expirations, snapshot_map) ==
    SortSeq(PointsOf(expirations, snapshot_map), LAMBDA p, q : p[1] < q[1])

\* _sum_open_interest
sum_open_interest(snapshot_map) ==
    LET RECURSIVE Sum(_)
        Sum(codes) == IF codes = {} THEN 0
                      ELSE LET c == CHOOSE x \in codes : TRUE IN
                           snapshot_map[c].oi[1] + Sum(codes \ {c})
        found == {c \in DOMAIN snapshot_map : snapshot_map[c].oi # Null}
    IN  IF found = {} THEN Null ELSE Some(Sum(found))

\* The scan keeping the first point below the target instead of the last.
RECURSIVE InterpolateScan_first_lower(_, _, _, _)
InterpolateScan_first_lower(points, target_day, i, lower) ==
    IF i > Len(points) THEN [exact |-> Null, lower |-> lower, upper |-> <<>>]
    ELSE IF points[i][1] = target_day
         THEN [exact |-> Some(points[i][2]), lower |-> lower, upper |-> <<>>]
    ELSE IF points[i][1] < target_day
         THEN InterpolateScan_first_lower(points, target_day, i + 1,
                                          IF lower = <<>> THEN points[i] ELSE lower)
    ELSE [exact |-> Null, lower |-> lower, upper |-> points[i]]

\* _interpolate_iv, lines 546-553: the scan for lower and upper.
RECURSIVE InterpolateScan(_, _, _, _)
InterpolateScan(points, target_day, i, lower) ==
    IF i > Len(points) THEN [exact |-> Null, lower |-> lower, upper |-> <<>>]
    ELSE IF points[i][1] = target_day
         THEN [exact |-> Some(points[i][2]), lower |-> lower, upper |-> <<>>]
    ELSE IF points[i][1] < target_day
         THEN InterpolateScan(points, target_day, i + 1, points[i])
    ELSE [exact |-> Null, lower |-> lower, upper |-> points[i]]

\* Lines 561-565: the IV interpolated in variance between two points; the
\* value is kept as the expression it is computed from.
VarianceInterpolation(lower, upper, target_day) ==
    <<"sqrt_var", lower[1], lower[2], upper[1], upper[2], target_day>>

\* An interpolator that gives nothing beyond the last point.
interpolate_iv_in_range(points, target_day) ==
    IF points # <<>> /\ target_day <= points[Len(points)][1]
    THEN Some(points[1][2]) ELSE Null

\* _interpolate_iv
interpolate_iv(points, target_day) ==
    IF points = <<>> THEN Null
    ELSE IF Len(points) = 1 THEN Some(points[1][2])
    ELSE LET sc == InterpolateScan(points, target_day, 1, <<>>) IN
         IF sc.exact # Null THEN sc.exact
         ELSE IF sc.lower # <<>> /\ sc.upper # <<>>
              THEN IF sc.upper[1] = sc.lower[1] THEN Some(sc.lower[2])
                   ELSE VarianceInterpolation(sc.lower, sc.upper, target_day)
         ELSE IF sc.lower # <<>> THEN Some(sc.lower[2])
         ELSE IF sc.upper # <<>> THEN Some(sc.upper[2])
         ELSE Null

\* _fetch_symbol_iv_terms: one run of the pipeline of a symbol, given what
\* the vendor does with its requests.  The outcome is [raised, result,
\* expirations, snapshot_requests, points].
fetch_symbol_iv_terms(max_days, chain_responses, snapshot_responses) ==
    LET requests == RequestsOf(WindowsFrom(0, max_days))
        expirations == collect_expirations(<<>>, requests, chain_responses, 1)
        snap == fetch_snapshot_map([raised |-> FALSE, snapshot_map |-> EmptyDict,
                                    requests |-> 0],
                                   CodesOf(expirations), snapshot_responses, 1)
        dte_points == build_dte_points(expirations, snap.snapshot_map)
        total_oi == sum_open_interest(snap.snapshot_map)
    IN  IF expirations = <<>>
        THEN [raised |-> FALSE, result |-> DefaultResult, expirations |-> 0,
              snapshot_requests |-> 0, points |-> 0]
        ELSE IF snap.raised
        THEN [raised |-> TRUE, result |-> DefaultResult, expirations |-> Len(expirations),
              snapshot_requests |-> snap.requests, points |-> 0]
        ELSE [raised |-> FALSE,
              result |-> IVTermResult(interpolate_iv(dte_points, 7),
                                      interpolate_iv(dte_points, 30),
                                      interpolate_iv(dte_points, 60),
                                      interpolate_iv(dte_points, 90),
                                      total_oi),
              expirations |-> Len(expirations),
              snapshot_requests |-> snap.requests,
              points |-> Len(dte_points)]

\* Retry wrapper, line 290: `if attempt < max_retries`
should_retry_on_last(attempt, max_retries) == attempt <= max_retries
should_retry(attempt, max_retries) == attempt < max_retries

\* The backoff without its ceiling.
backoff_uncapped(attempt) == 2 ^ attempt

\* Retry wrapper, line 291: min(30.0, 2 ** attempt)
backoff_seconds(attempt) == Min(max_backoff, 2 ^ attempt)

\* fetch_iv_terms, lines 266-268: the exception of a symbol is logged and
\* the symbol gets a default result.  The outcome is [raised, results].
batch_except_reraises(results, symbol) == [raised |-> TRUE, results |-> results]
batch_except(results, symbol) ==
    [raised |-> FALSE, results |-> DictPut(results, symbol, DefaultResult)]

IVInit ==
    /\ quote_ctx = "None"
    /\ futu_connected = FALSE
    /\ iv_pc = "idle"
    /\ iv_symbols = <<>>
    /\ iv_max_days = 0
    /\ iv_max_retries = 0
    /\ iv_idx = 1
    /\ iv_attempt = 0
    /\ iv_results = EmptyDict
    /\ iv_log = <<>>
    /\ iv_sleeps = <<>>
    /\ iv_wrapper = <<>>

\* fetch_iv_terms is called, lines 241-247: connect when not connected
\* (connect() catches every exception of OpenQuoteContext).
FetchIvTerms(symbols, max_days, max_retries) ==
    /\ iv_pc = "idle"
    /\ IF futu_is_connected
       THEN UNCHANGED <<quote_ctx, futu_connected>>
       ELSE \E ok \in BOOLEAN :
              /\ quote_ctx' = IF ok THEN "open" ELSE quote_ctx
              /\ futu_connected' = ok
    /\ iv_symbols' = symbols
    /\ iv_max_days' = max_days
    /\ iv_max_retries' = max_retries
    /\ iv_pc' = "symbol"
    /\ UNCHANGED <<iv_idx, iv_attempt, iv_results, iv_log, iv_sleeps, iv_wrapper>>
    /\ UNCHANGED notIV

\* The retry wrapper ends for the symbol in work: it returned `value`
\* (kind "returned") or raised the exception `exc` (kind "raised"; the
\* exception of attempt i is i, the RuntimeError of line 297 is -1).
WrapperEnds(kind, exc, value, log) ==
    /\ iv_wrapper' = Append(iv_wrapper, [kind |-> kind, exc |-> exc, value |-> value,
                                         log |-> log, sleeps |-> iv_sleeps])
    /\ LET symbol == iv_symbols[iv_idx]
           out == IF kind = "returned"
                  THEN [raised |-> FALSE, results |-> DictPut(iv_results, symbol, value)]
                  ELSE batch_except(iv_results, symbol)
       IN  /\ iv_results' = out.results
           /\ iv_pc' = IF out.raised THEN "raised" ELSE "symbol"
    /\ iv_idx' = iv_idx + 1
    /\ iv_attempt' = 0
    /\ iv_log' = <<>>
    /\ iv_sleeps' = <<>>

\* Lines 286-295: what the wrapper does with the outcome of one attempt.
AttemptEnds(raised, result, log) ==
    IF ~raised
    THEN WrapperEnds("returned", 0, result, log)
    ELSE IF should_retry(iv_attempt, iv_max_retries)
    THEN /\ iv_pc' = "backoff"
         /\ iv_log' = log
         /\ UNCHANGED <<iv_idx, iv_attempt, iv_results, iv_sleeps, iv_wrapper>>
    ELSE WrapperEnds("raised", iv_attempt, DefaultResult, log)

\* One turn of the wrapper's loop, lines 285-295: the pipeline runs once
\* for the symbol in work; with no session every chain request raises.
\* iv_log gets what the attempt met and did: whether it returned, its
\* value, whether the vendor had nothing, the expirations found, the
\* snapshot requests issued and the DTE points built.
Attempt ==
    /\ iv_pc = "symbol"
    /\ iv_idx <= Len(iv_symbols)
    /\ iv_attempt <= iv_max_retries
    /\ LET requests == RequestsOf(WindowsFrom(0, iv_max_days)) IN
       \E chain_responses \in [1..Len(requests) -> ChainResponses] :
         /\ quote_ctx = "None" => \A i \in 1..Len(requests) : chain_responses[i] = "raise"
         /\ LET codes == CodesOf(collect_expirations(<<>>, requests, chain_responses, 1)) IN
            \E snapshot_responses \in [1..NumChunks(codes) -> SnapshotResponses] :
              LET o == fetch_symbol_iv_terms(iv_max_days, chain_responses, snapshot_responses)
                  log == Append(iv_log,
                                [ok |-> ~o.raised, value |-> o.result,
                                 nothing |-> VendorHasNothing(requests, chain_responses),
                                 expirations |-> o.expirations,
                                 snapshot_requests |-> o.snapshot_requests,
                                 points |-> o.points])
              IN  AttemptEnds(o.raised, o.result, log)
    /\ UNCHANGED <<quote_ctx, futu_connected, iv_symbols, iv_max_days, iv_max_retries>>
    /\ UNCHANGED notIV

\* Lines 291-293: the sleep before the next attempt.
Backoff ==
    /\ iv_pc = "backoff"
    /\ iv_sleeps' = Append(iv_sleeps, backoff_seconds(iv_attempt))
    /\ iv_attempt' = iv_attempt + 1
    /\ iv_pc' = "symbol"
    /\ UNCHANGED <<quote_ctx, futu_connected, iv_symbols, iv_max_days, iv_max_retries,
                   iv_idx, iv_results, iv_log, iv_wrapper>>
    /\ UNCHANGED notIV

\* Line 297: the loop of the wrapper ended without a return or a raise.
RangeExhausted ==
    /\ iv_pc = "symbol"
    /\ iv_idx <= Len(iv_symbols)
    /\ iv_attempt > iv_max_retries
    /\ WrapperEnds("raised", -1, DefaultResult, iv_log)
    /\ UNCHANGED <<quote_ctx, futu_connected, iv_symbols, iv_max_days, iv_max_retries>>
    /\ UNCHANGED notIV

\* Lines 270-274: every symbol is done; fetch_iv_terms returns results.
FetchReturns ==
    /\ iv_pc = "symbol"
    /\ iv_idx > Len(iv_symbols)
    /\ iv_pc' = "returned"
    /\ UNCHANGED <<quote_ctx, futu_connected, iv_symbols, iv_max_days, iv_max_retries,
                   iv_idx, iv_attempt, iv_results, iv_log, iv_sleeps, iv_wrapper>>
    /\ UNCHANGED notIV

IVNext ==
    \/ \E symbols \in IVSymbolLists, max_days \in IVMaxDays,
          max_retries \in (-1)..MaxRetries : FetchIvTerms(symbols, max_days, max_retries)
    \/ Attempt
    \/ Backoff
    \/ RangeExhausted
    \/ FetchReturns

\* ---- the snapshot requests of FutuConnector, one caller at a time ----
NothingSent == snapshot_sent = <<>>

\* What the snapshot steps leave alone besides the limiter.
notLimitedSnapshot ==
    <<ibkrVars, oiVars, ivVars, fnVars, orchVars, singletonVars, ceVars, paVars, gcVars>>

\* _fetch_snapshot_map, lines 448-450: snapshot_limiter.acquire() ends by
\* recording the call, and the snapshot request of the chunk follows.
FetchSnapshotRequest ==
    /\ RecordStep(<<"rl", 1>>)
    /\ snapshot_sent' = Append(snapshot_sent, clock)
    /\ UNCHANGED notLimitedSnapshot

\* get_current_price, lines 204-209: a connected connector sends the
\* snapshot request of the symbol; the limiter is not used.
GetCurrentPrice ==
    /\ futu_is_connected
    /\ rl_pc[<<"rl", 1>>] = "idle"
    /\ Len(snapshot_sent) <= MaxQuota
    /\ snapshot_sent' = Append(snapshot_sent, clock)
    /\ UNCHANGED rlVars
    /\ UNCHANGED notLimitedSnapshot

SnapshotQuotaNext ==
    \/ Tick
    \/ AcquireStart(<<"rl", 1>>)
    \/ AcquireEvict(<<"rl", 1>>)
    \/ AcquireCheck(<<"rl", 1>>)
    \/ AcquireWake(<<"rl", 1>>)
    \/ FetchSnapshotRequest
    \/ GetCurrentPrice

\* ---- _get_option_chain_safe called on its own ----
\* Lines 412-417: the date-range parameter names, in the order tried;
\* "no_dates" is the request of line 428.
variants == <<"start/end", "begin_time/end_time", "start_time/end_time",
              "start_date/end_date">>
RequestForms == {variants[i] : i \in 1..Len(variants)} \cup {"no_dates"}

\* What the client does with a request: it rejects the parameters with a
\* TypeError, raises another exception, or returns a non-OK or an OK status.
ClientOutcomes == {"type_error", "raise", "fail", "ok"}

NoChainResult == [kind |-> "none", ret |-> "none"]
ChainReturned(ret) == [kind |-> "returned", ret |-> ret]
ChainRaised == [kind |-> "raised", ret |-> "none"]

ChainIdle ==
    /\ gc_client = [f \in RequestForms |-> "ok"]
    /\ gc_tried = <<>>
    /\ gc_result = NoChainResult
    /\ gc_done = TRUE

\* _get_option_chain_safe is about to be called with any client.
ChainInit ==
    /\ gc_client \in [RequestForms -> ClientOutcomes]
    /\ gc_tried = <<>>
    /\ gc_result = NoChainResult
    /\ gc_done = FALSE

\* A loop that goes on to the next variant after any exception.
rejected_any_error(outcome) == outcome \in {"type_error", "raise"}

\* Line 424: `except TypeError: continue`
rejected(outcome) == outcome = "type_error"

\* Lines 419-425: one turn of the loop over the variants.  A variant the
\* client takes ends the call with what the client returned or raised.
TryVariant ==
    /\ ~gc_done
    /\ Len(gc_tried) < Len(variants)
    /\ LET variant == variants[Len(gc_tried) + 1]
           outcome == gc_client[variant]
       IN  /\ gc_tried' = Append(gc_tried, variant)
           /\ IF rejected(outcome)
              THEN UNCHANGED <<gc_result, gc_done>>
              ELSE /\ gc_done' = TRUE
                   /\ gc_result' = IF outcome = "raise" THEN ChainRaised
                                   ELSE ChainReturned(IF outcome = "ok" THEN "RET_OK"
                                                 ELSE "RET_ERROR")
    /\ UNCHANGED gc_client
    /\ UNCHANGED notGC

\* Lines 427-432: the request without dates; every exception becomes the
\* status -1.
TryNoDates ==
    /\ ~gc_done
    /\ Len(gc_tried) = Len(variants)
    /\ gc_tried' = Append(gc_tried, "no_dates")
    /\ gc_result' = ChainReturned(IF gc_client["no_dates"] = "ok" THEN "RET_OK"
                             ELSE IF gc_client["no_dates"] = "fail" THEN "RET_ERROR"
                             ELSE "-1")
    /\ gc_done' = TRUE
    /\ UNCHANGED gc_client
    /\ UNCHANGED notGC

ChainNext == TryVariant \/ TryNoDates

\* ---- _pick_atm_iv called on its own ----
PickIdle ==
    /\ pa_contracts = <<>>
    /\ pa_snapshot_map = EmptyDict
    /\ pa_result = Null
    /\ pa_done = TRUE

\* What a contract of the list can be: a call or a put, with no snapshot,
\* or a snapshot that lacks the delta, the IV or neither; deltas are in
\* hundredths (0.30, 0.50, 0.60, 0.70).
PickDeltas == {30, 50, 60, 70}
PickKinds ==
    [option_type : {"CALL", "PUT"}, snapshot : {"absent", "no_delta", "no_iv"}]
    \cup {[option_type |-> t, snapshot |-> ToString(d)] : t \in {"CALL", "PUT"}, d \in PickDeltas}
DeltaOfKind(kind) ==
    IF kind.snapshot \in {"absent", "no_delta"} THEN Null
    ELSE IF kind.snapshot = "no_iv" THEN Some(50)
    ELSE Some(CHOOSE d \in PickDeltas : ToString(d) = kind.snapshot)
\* The IV of the i-th contract, a fraction (0.21, 0.23, ...) or, for the
\* second one, a percentage (25.02).
PickIV(i) == IF i = 2 THEN 2502 ELSE 20 + i
PickSnapshot(i, kind) ==
    [delta |-> DeltaOfKind(kind),
     iv |-> IF kind.snapshot \in {"absent", "no_iv"} THEN Null ELSE Some(PickIV(i)),
     oi |-> Some(1)]
PositionOf(code, n) == CHOOSE i \in 1..n : ToString(i) = code

\* _pick_atm_iv is about to be called with any list of up to MaxContracts
\* contracts and any snapshot map for them.
PickInit ==
    /\ \E n \in 0..MaxContracts : \E kinds \in [1..n -> PickKinds] :
         /\ pa_contracts =
               [i \in 1..n |-> [code |-> ToString(i), option_type |-> kinds[i].option_type]]
         /\ pa_snapshot_map =
               [code \in {ToString(i) : i \in {j \in 1..n : kinds[j].snapshot # "absent"}} |->
                   PickSnapshot(PositionOf(code, n), kinds[PositionOf(code, n)])]
    /\ pa_result = Null
    /\ pa_done = FALSE

PickAtmIV ==
    /\ ~pa_done
    /\ pa_result' = pick_atm_iv(pa_contracts, pa_snapshot_map, 1, <<Null, Null>>)
    /\ pa_done' = TRUE
    /\ UNCHANGED <<pa_contracts, pa_snapshot_map>>
    /\ UNCHANGED notPA

PickNext == PickAtmIV

\* ---- _collect_expirations called on its own ----
CollectIdle ==
    /\ ce_end_date = 0
    /\ ce_window_start = 0
    /\ ce_windows = <<>>
    /\ ce_events = <<>>
    /\ ce_expirations = <<>>
    /\ ce_done = TRUE

\* _collect_expirations(code, today, today + max_days) is about to run for
\* any max_days of 0..MaxCollectDays; line 369: window_start = start_date.
CollectInit ==
    /\ ce_end_date \in 0..MaxCollectDays
    /\ ce_window_start = 0
    /\ ce_windows = <<>>
    /\ ce_events = <<>>
    /\ ce_expirations = <<>>
    /\ ce_done = FALSE

AcquireEvent == [kind |-> "acquire", option_type |-> "", window |-> <<0, 0>>, response |-> ""]
RequestEvent(option_type, window, response) ==
    [kind |-> "request", option_type |-> option_type, window |-> window,
     response |-> response]

\* Lines 371-400: one turn of the while loop.  For CALL, then PUT:
\* chain_limiter.acquire(), then the chain request; a non-OK status and
\* an exception are logged and the loop goes on.
CollectWindow ==
    /\ ~ce_done
    /\ ce_window_start <= ce_end_date
    /\ LET window == <<ce_window_start, window_end_of(ce_window_start, ce_end_date)>>
           call == [window |-> window, option_type |-> "CALL"]
           put == [window |-> window, option_type |-> "PUT"]
       IN  /\ \E rc \in ChainResponses, rp \in ChainResponses :
                /\ ce_events' = ce_events \o
                       <<AcquireEvent, RequestEvent("CALL", window, rc),
                         AcquireEvent, RequestEvent("PUT", window, rp)>>
                /\ ce_expirations' =
                       AddRecords(AddRecords(ce_expirations, chain_records(call, rc), "CALL"),
                                  chain_records(put, rp), "PUT")
           /\ ce_windows' = Append(ce_windows, window)
           /\ ce_window_start' = next_window_start(window[2])
    /\ UNCHANGED <<ce_end_date, ce_done>>
    /\ UNCHANGED notCE

\* Line 402: return expirations, once window_start is past end_date.
CollectReturn ==
    /\ ~ce_done
    /\ ce_window_start > ce_end_date
    /\ ce_done' = TRUE
    /\ UNCHANGED <<ce_end_date, ce_window_start, ce_windows, ce_events, ce_expirations>>
    /\ UNCHANGED notCE

CollectNext == CollectWindow \/ CollectReturn

\* The call is one thread's loop: it keeps taking its next step.
CollectFairness == WF_vars(CollectWindow) /\ WF_vars(CollectReturn)

\* The retry wrapper called for one symbol with any max_retries up to
\* MaxWrapperRetries, the pipeline seen only by how each attempt ends.
RetryInit ==
    /\ quote_ctx = "open"
    /\ futu_connected = TRUE
    /\ iv_pc = "symbol"
    /\ iv_symbols = <<"A">>
    /\ iv_max_days = 0
    /\ iv_max_retries \in (-1)..MaxWrapperRetries
    /\ iv_idx = 1
    /\ iv_attempt = 0
    /\ iv_results = EmptyDict
    /\ iv_log = <<>>
    /\ iv_sleeps = <<>>
    /\ iv_wrapper = <<>>

\* What one attempt can end with: an exception, a result without IV
\* fields, or a result with them.
AttemptResults ==
    {[raised |-> TRUE, result |-> DefaultResult],
     [raised |-> FALSE, result |-> DefaultResult],
     [raised |-> FALSE, result |-> IVTermResult(Some(2000), Some(2000), Some(2000), Some(2000), Some(1))]}

\* One turn of the wrapper's loop, lines 285-295.
RetryAttempt ==
    /\ iv_pc = "symbol"
    /\ iv_idx <= Len(iv_symbols)
    /\ iv_attempt <= iv_max_retries
    /\ \E o \in AttemptResults :
         AttemptEnds(o.raised, o.result,
                     Append(iv_log, [ok |-> ~o.raised, value |-> o.result,
                                     nothing |-> FALSE, expirations |-> 0,
                                     snapshot_requests |-> 0, points |-> 0]))
    /\ UNCHANGED <<quote_ctx, futu_connected, iv_symbols, iv_max_days, iv_max_retries>>
    /\ UNCHANGED notIV

RetryNext ==
    \/ RetryAttempt
    \/ Backoff
    \/ RangeExhausted
    \/ FetchReturns

(***************************************************************************)
(* _interpolate_iv and _fetch_snapshot_map applied to inputs of their own  *)
(* (futu_connector.py).                                                    *)
(***************************************************************************)
InterpDtes == {5, 7, 20, 40}
InterpIVs == {2000, 2500}
InterpTargets == {7, 30, 90}

\* Points sorted by ascending dte, as _build_dte_points returns them.
IsSortedByDte(points) ==
    \A i \in 1..(Len(points) - 1) : points[i][1] <= points[i + 1][1]
PointLists ==
    UNION {{p \in [1..n -> InterpDtes \X InterpIVs] : IsSortedByDte(p)} : n \in 0..MaxPoints}

NoSnapshotResult == [raised |-> FALSE, snapshot_map |-> EmptyDict, requests |-> 0]

\* Nothing has been called.
FnIdle ==
    /\ it_points = <<>>
    /\ it_target = 0
    /\ it_result = Null
    /\ it_done = FALSE
    /\ sn_codes = <<>>
    /\ sn_responses = <<>>
    /\ sn_result = NoSnapshotResult
    /\ sn_done = FALSE
    /\ sn_events = <<>>

\* _interpolate_iv is about to be called with any sorted points and target.
InterpInit ==
    /\ it_points \in PointLists
    /\ it_target \in InterpTargets
    /\ it_result = Null
    /\ it_done = FALSE
    /\ sn_codes = <<>>
    /\ sn_responses = <<>>
    /\ sn_result = NoSnapshotResult
    /\ sn_done = FALSE
    /\ sn_events = <<>>

\* _interpolate_iv(points, target_day) returns.
InterpolateIV ==
    /\ ~it_done
    /\ it_result' = interpolate_iv(it_points, it_target)
    /\ it_done' = TRUE
    /\ UNCHANGED <<it_points, it_target, sn_codes, sn_responses, sn_result, sn_done,
                   sn_events>>
    /\ UNCHANGED notFn

InterpNext == InterpolateIV

\* Lists of L distinct option codes, of lengths around the multiples of
\* chunk_size.
CodeList(L) == [i \in 1..L |-> ToString(i)]
SnapshotLengths ==
    {0, 1} \cup {k * chunk_size + d : k \in 1..(MaxChunks - 1), d \in {0, 1}}

\* _fetch_snapshot_map is about to be called for any such list of codes.
SnapshotInit ==
    /\ sn_codes \in {CodeList(L) : L \in SnapshotLengths}
    /\ sn_responses = <<>>
    /\ sn_result = NoSnapshotResult
    /\ sn_done = FALSE
    /\ sn_events = <<>>
    /\ it_points = <<>>
    /\ it_target = 0
    /\ it_result = Null
    /\ it_done = FALSE

SnapshotAcquire == [kind |-> "acquire", batch |-> <<>>]
SnapshotRequest(batch) == [kind |-> "request", batch |-> batch]

\* Lines 446-459: snapshot_limiter.acquire() and the snapshot request of
\* the next chunk, answered by the vendor in any way; an exception of the request leaves the loop and the
\* function.
SnapshotChunk ==
    /\ ~sn_done
    /\ sn_result.requests < NumChunks(sn_codes)
    /\ \E response \in SnapshotResponses :
         /\ sn_responses' = Append(sn_responses, response)
         /\ sn_result' = snapshot_chunk(sn_result, sn_codes, response,
                                        sn_result.requests + 1)
         /\ sn_done' = (response = "raise")
    /\ sn_events' = sn_events \o
          <<SnapshotAcquire, SnapshotRequest(Chunk(sn_codes, sn_result.requests + 1))>>
    /\ UNCHANGED <<sn_codes, it_points, it_target, it_result, it_done>>
    /\ UNCHANGED notFn

\* Line 461: return snapshot_map.
SnapshotReturn ==
    /\ ~sn_done
    /\ sn_result.requests = NumChunks(sn_codes)
    /\ sn_done' = TRUE
    /\ UNCHANGED <<sn_codes, sn_responses, sn_result, sn_events, it_points, it_target,
                   it_result, it_done>>
    /\ UNCHANGED notFn

SnapshotNext == SnapshotChunk \/ SnapshotReturn

(***************************************************************************)
(* DataOrchestrator connect/disconnect (orchestrator.py) and the sessions  *)
(* the connectors open with their vendor.  The calls are made one at a     *)
(* time; a session is numbered in the order it was opened.  st is the      *)
(* state of one vendor: [session, connected, open, opened].                *)
(***************************************************************************)
Vendors == {"ibkr", "futu"}

OrchInit ==
    /\ orch_connector = [v \in Vendors |-> FALSE]
    /\ broker_status = [v \in Vendors |-> FALSE]
    /\ conn_session = [v \in Vendors |-> 0]
    /\ conn_connected = [v \in Vendors |-> FALSE]
    /\ open_sessions = [v \in Vendors |-> {}]
    /\ sessions_opened = [v \in Vendors |-> 0]
    /\ last_call = [v \in Vendors |-> "none"]
    /\ orchestrator_instance = 0
    /\ instances_created = 0
    /\ gets = {}
    /\ retired = {}

VendorState(v) ==
    [session |-> conn_session[v], connected |-> conn_connected[v],
     open |-> open_sessions[v], opened |-> sessions_opened[v]]

\* IBKRConnector(...) / FutuConnector(...): a connector without a client.
\* The connector it replaces in the orchestrator is dropped as it is.
NewConnector(st) == [st EXCEPT !.session = 0, !.connected = FALSE]

\* A session opened by a client: the next number, now open.
Opened(st) ==
    [st EXCEPT !.session = st.opened + 1, !.open = @ \cup {st.opened + 1},
               !.opened = @ + 1]

\* FutuConnector.connect, lines 156-164: OpenQuoteContext replaces
\* self.quote_ctx whatever it held.
futu_connect(st, outcome) ==
    IF outcome = "ok" THEN [Opened(st) EXCEPT !.connected = TRUE]
    ELSE [st EXCEPT !.connected = FALSE]

\* FutuConnector.disconnect, lines 168-172
futu_disconnect(st) ==
    IF st.session # 0
    THEN [st EXCEPT !.open = @ \ {st.session}, !.session = 0, !.connected = FALSE]
    ELSE st

\* IBKRConnectorReal._connect_impl with _init_ib: the old client of this
\* connector is disconnected before the new one is created and dialled.
ibkr_connect(st, outcome) ==
    IF st.connected /\ st.session \in st.open THEN st
    ELSE LET old_closed == [st EXCEPT !.open = @ \ {st.session}] IN
         IF outcome = "create_raises" THEN old_closed
         ELSE IF outcome \in {"ok", "dialled_then_error"}
         THEN [Opened(old_closed) EXCEPT !.connected = (outcome = "ok")]
         ELSE [old_closed EXCEPT !.session = 0, !.connected = FALSE]

\* IBKRConnectorReal._disconnect_impl, lines 307-324
ibkr_disconnect(st) ==
    IF st.session \in st.open
    THEN [st EXCEPT !.open = @ \ {st.session}, !.connected = FALSE]
    ELSE st

connector_connect(v, st, outcome) ==
    IF v = "ibkr" THEN ibkr_connect(st, outcome) ELSE futu_connect(st, outcome)

connector_disconnect(v, st) ==
    IF v = "ibkr" THEN ibkr_disconnect(st) ELSE futu_disconnect(st)

\* The state of vendor v becomes st.
SetVendor(v, st) ==
    /\ conn_session' = [conn_session EXCEPT ![v] = st.session]
    /\ conn_connected' = [conn_connected EXCEPT ![v] = st.connected]
    /\ open_sessions' = [open_sessions EXCEPT ![v] = st.open]
    /\ sessions_opened' = [sessions_opened EXCEPT ![v] = st.opened]

\* The status recorded whatever the attempt returned.
recorded_status_always(success) == TRUE

\* Lines 198-204 and 243-249: BrokerConnectionStatus(is_connected=success)
recorded_status(success) == success

\* DataOrchestrator.connect_ibkr / connect_futu: a new connector replaces
\* self._ibkr / self._futu and is connected; an exception is caught.  The
\* call returns `success`, which is also what the status records.
OrchConnect(v) ==
    /\ sessions_opened[v] < MaxSessions
    /\ \E outcome \in ConnectOutcomes :
         LET st == connector_connect(v, NewConnector(VendorState(v)), outcome)
             success == st.connected
         IN
         /\ SetVendor(v, st)
         /\ broker_status' = [broker_status EXCEPT ![v] = recorded_status(success)]
         /\ last_call' = [last_call EXCEPT ![v] =
                            IF success THEN "connect_ok" ELSE "connect_failed"]
    /\ orch_connector' = [orch_connector EXCEPT ![v] = TRUE]
    /\ UNCHANGED notOrch

\* The vendor state and the status after disconnect_ibkr / disconnect_futu:
\* nothing is done without a connector.
disconnected_state(v) ==
    IF orch_connector[v] THEN connector_disconnect(v, VendorState(v))
    ELSE VendorState(v)
disconnected_status(v) == IF orch_connector[v] THEN FALSE ELSE broker_status[v]

\* DataOrchestrator.disconnect_ibkr / disconnect_futu
OrchDisconnect(v) ==
    /\ SetVendor(v, disconnected_state(v))
    /\ broker_status' = [broker_status EXCEPT ![v] = disconnected_status(v)]
    /\ last_call' = [last_call EXCEPT ![v] = "disconnect"]
    /\ UNCHANGED orch_connector
    /\ UNCHANGED notOrch

\* connect() called on the connector the orchestrator holds.
ConnectorConnect(v) ==
    /\ orch_connector[v]
    /\ sessions_opened[v] < MaxSessions
    /\ \E outcome \in ConnectOutcomes :
         SetVendor(v, connector_connect(v, VendorState(v), outcome))
    /\ UNCHANGED <<orch_connector, broker_status, last_call>>
    /\ UNCHANGED notOrch

\* disconnect() called on the connector the orchestrator holds.
ConnectorDisconnect(v) ==
    /\ orch_connector[v]
    /\ SetVendor(v, connector_disconnect(v, VendorState(v)))
    /\ UNCHANGED <<orch_connector, broker_status, last_call>>
    /\ UNCHANGED notOrch

OrchNext ==
    \/ \E v \in Vendors : OrchConnect(v)
    \/ \E v \in Vendors : OrchDisconnect(v)
    \/ \E v \in Vendors : ConnectorConnect(v)
    \/ \E v \in Vendors : ConnectorDisconnect(v)

\* get_orchestrator with the test of the instance left out.
instance_is_none_always == TRUE

\* Line 1026: `if _orchestrator_instance is None`
instance_is_none == orchestrator_instance = 0

\* get_orchestrator, lines 1017-1029; DataOrchestrator.__init__ gives the
\* new instance no connector and a status that is not connected.
GetOrchestrator ==
    /\ IF instance_is_none
       THEN /\ instances_created < MaxInstances
            /\ orchestrator_instance' = instances_created + 1
            /\ instances_created' = instances_created + 1
            /\ orch_connector' = [v \in Vendors |-> FALSE]
            /\ broker_status' = [v \in Vendors |-> FALSE]
            /\ conn_session' = [v \in Vendors |-> 0]
            /\ conn_connected' = [v \in Vendors |-> FALSE]
            /\ last_call' = [v \in Vendors |-> "none"]
            /\ UNCHANGED <<open_sessions, sessions_opened>>
       ELSE /\ UNCHANGED <<orchestrator_instance, instances_created>>
            /\ UNCHANGED orchVars
    /\ gets' = gets \cup {orchestrator_instance'}
    /\ UNCHANGED retired
    /\ UNCHANGED notSingleton

\* reset_orchestrator, lines 1032-1041: disconnect_ibkr and disconnect_futu
\* of the instance, then the global is None.
ResetOrchestrator ==
    /\ IF orchestrator_instance # 0
       THEN /\ conn_session' = [v \in Vendors |-> disconnected_state(v).session]
            /\ conn_connected' = [v \in Vendors |-> disconnected_state(v).connected]
            /\ open_sessions' = [v \in Vendors |-> disconnected_state(v).open]
            /\ broker_status' = [v \in Vendors |-> disconnected_status(v)]
            /\ last_call' = [v \in Vendors |-> "disconnect"]
            /\ UNCHANGED <<orch_connector, sessions_opened>>
       ELSE UNCHANGED orchVars
    /\ orchestrator_instance' = 0
    /\ retired' = retired \cup gets
    /\ gets' = {}
    /\ UNCHANGED instances_created
    /\ UNCHANGED notSingleton

\* connect_* / disconnect_* called on the instance get_orchestrator gave.
InstanceConnect(v) == gets # {} /\ OrchConnect(v)
InstanceDisconnect(v) == gets # {} /\ OrchDisconnect(v)

SingletonNext ==
    \/ GetOrchestrator
    \/ ResetOrchestrator
    \/ \E v \in Vendors : InstanceConnect(v)
    \/ \E v \in Vendors : InstanceDisconnect(v)


(***************************************************************************)
(* Specifications                                                          *)
(***************************************************************************)
InitWorker == IBKRInit /\ RLInitWith(1, 1) /\ OIInit /\ IVInit /\ FnIdle /\ OrchInit /\ CollectIdle /\ PickIdle /\ ChainIdle /\ NothingSent
SpecWorker == InitWorker /\ [][IBKRNext]_vars

\* The worker thread of the executor keeps running: it takes the next task
\* when it is free, and the body it runs takes its next step (each vendor
\* call returns).
WorkerFairness ==
    /\ WF_vars(\E w \in Workers : WorkerTake(w))
    /\ WF_vars(\E th \in Threads : connect_impl(th))
    /\ WF_vars(\E th \in Threads : disconnect_impl(th))
    /\ WF_vars(\E th \in Threads : is_connected_body(th))
    /\ WF_vars(\E th \in Threads : NestedIsConnected(th))
    /\ WF_vars(\E th \in Threads : DataFail(th))
    /\ WF_vars(\E th \in Threads : DataFetch(th))
SpecWorkerLive == InitWorker /\ [][IBKRNext]_vars /\ WorkerFairness

InitRL == RLInit /\ IBKRInit /\ OIInit /\ IVInit /\ FnIdle /\ OrchInit /\ CollectIdle /\ PickIdle /\ ChainIdle /\ NothingSent
SpecRL == InitRL /\ [][RLNext]_vars
SpecRLConc == InitRL /\ [][RLConcNext]_vars

InitOI == OIInit /\ IBKRInit /\ RLInitWith(1, 1) /\ IVInit /\ FnIdle /\ OrchInit /\ CollectIdle /\ PickIdle /\ ChainIdle /\ NothingSent
SpecOI == InitOI /\ [][OINext]_vars
SpecOIDaily == InitOI /\ [][OIDailyNext]_vars
SpecOIConc == InitOI /\ [][OIConcNext]_vars

InitIV == IVInit /\ IBKRInit /\ RLInitWith(1, 1) /\ OIInit /\ FnIdle /\ OrchInit /\ CollectIdle /\ PickIdle /\ ChainIdle /\ NothingSent
SpecIV == InitIV /\ [][IVNext]_vars

InitInterp == InterpInit /\ IBKRInit /\ RLInitWith(1, 1) /\ OIInit /\ IVInit /\ OrchInit /\ CollectIdle /\ PickIdle /\ ChainIdle /\ NothingSent
SpecInterp == InitInterp /\ [][InterpNext]_vars

InitOrch == OrchInit /\ IBKRInit /\ RLInitWith(1, 1) /\ OIInit /\ IVInit /\ FnIdle /\ CollectIdle /\ PickIdle /\ ChainIdle /\ NothingSent
SpecOrch == InitOrch /\ [][OrchNext]_vars

SpecSingleton == InitOrch /\ [][SingletonNext]_vars

InitRetry == RetryInit /\ IBKRInit /\ RLInitWith(1, 1) /\ OIInit /\ FnIdle /\ OrchInit /\ CollectIdle /\ PickIdle /\ ChainIdle /\ NothingSent
SpecRetry == InitRetry /\ [][RetryNext]_vars

InitCollect == CollectInit /\ IBKRInit /\ RLInitWith(1, 1) /\ OIInit /\ IVInit /\ FnIdle /\ OrchInit /\ PickIdle /\ ChainIdle /\ NothingSent
SpecCollect == InitCollect /\ [][CollectNext]_vars /\ CollectFairness

InitPick == PickInit /\ IBKRInit /\ RLInitWith(1, 1) /\ OIInit /\ IVInit /\ FnIdle /\ OrchInit /\ CollectIdle /\ ChainIdle /\ NothingSent
SpecPick == InitPick /\ [][PickNext]_vars

InitChain == ChainInit /\ IBKRInit /\ RLInitWith(1, 1) /\ OIInit /\ IVInit /\ FnIdle /\ OrchInit /\ CollectIdle /\ PickIdle /\ NothingSent
SpecChain == InitChain /\ [][ChainNext]_vars

\* A connected connector whose snapshot limiter allows MaxQuota calls per
\* MaxPeriod ticks.
InitSnapshotQuota ==
    /\ RLInitWith(MaxQuota, MaxPeriod)
    /\ quote_ctx = "open" /\ futu_connected = TRUE
    /\ iv_pc = "idle" /\ iv_symbols = <<>> /\ iv_max_days = 0 /\ iv_max_retries = 0
    /\ iv_idx = 1 /\ iv_attempt = 0 /\ iv_results = EmptyDict
    /\ iv_log = <<>> /\ iv_sleeps = <<>> /\ iv_wrapper = <<>>
    /\ IBKRInit /\ OIInit /\ FnIdle /\ OrchInit /\ CollectIdle /\ PickIdle /\ ChainIdle
    /\ NothingSent
SpecSnapshotQuota == InitSnapshotQuota /\ [][SnapshotQuotaNext]_vars

InitSnapshot == SnapshotInit /\ IBKRInit /\ RLInitWith(1, 1) /\ OIInit /\ IVInit /\ OrchInit /\ CollectIdle /\ PickIdle /\ ChainIdle /\ NothingSent
SpecSnapshot == InitSnapshot /\ [][SnapshotNext]_vars

(***************************************************************************)
(* Claims                                                                  *)
(***************************************************************************)
Executing == {th \in Threads : exec[th] # NoFrame}

\* C1: whatever the caller threads do, at most one operation body is
\* executing at any time, and it executes on the worker thread.
C1_OneOperationAtATime ==
    /\ Cardinality(Executing) <= 1
    /\ Executing \subseteq Workers

\* An operation is executing while another caller's call is pending.
C1_Witness ==
    /\ Executing # {}
    /\ \E c \in Callers : pc[c] = "waiting" /\ \A th \in Executing : exec[th].caller # c

\* C2: no trailing window of rl_period ticks holds more than rl_max_calls
\* recorded calls (it is enough to look at the windows ending at a recorded
\* call).
C2_WindowQuota ==
    \A i \in 1..Len(admitted) : Cardinality(InWindow(admitted[i])) <= rl_max_calls

\* A call found the window full, slept and was recorded.
C2_Witness ==
    /\ Len(calls) = rl_max_calls + 1
    /\ Len(admitted) > rl_max_calls
    /\ admitted[Len(admitted)] - admitted[Len(admitted) - rl_max_calls] >= rl_period


\* ---- batch_compute_delta_oi ----
SeqThread == <<"oi", 1>>
\* The history of symbol s in a file.
History(file, s) == DictGet(load_oi_cache(file), s, EmptyDict)
MaxOf(S) == CHOOSE x \in S : \A y \in S : y <= x
\* The days of [today-7, today-1] that have an entry in history h.
PriorDays(h, today) == {n \in (today - 7)..(today - 1) : DateStr(n) \in DOMAIN h}
\* Thread t has returned from a call.
Returned(t) == oi_pc[t] = "idle" /\ oi_today[t] # 0

\* C3: when the calls of two threads for different symbols have both
\* returned, the file holds today's entry of both symbols.
C3_NoLostUpdate ==
    \A t \in OIThreads, u \in OIThreads :
        (/\ t # u
         /\ Returned(t) /\ Returned(u)
         /\ Written(oi_input[t]) \cap Written(oi_input[u]) = {})
        => \A s \in Written(oi_input[t]) \cup Written(oi_input[u]) :
               DateStr(day) \in DOMAIN History(oi_file, s)

\* C7: for a symbol with a value, the delta returned is the value minus the
\* entry of the latest day of [today-7, today-1] in the history the call
\* found, and None when there is no such day; today's entry is not used.
C7_DeltaFromLatestPrior ==
    Returned(SeqThread) =>
    \A s \in DOMAIN oi_results[SeqThread] :
        LET r == oi_results[SeqThread][s]
            h == History(oi_before[SeqThread], s)
            prior == PriorDays(h, oi_today[SeqThread])
        IN  r[1] # Null =>
              r[2] = IF prior = {} THEN Null
                     ELSE Some(r[1][1] - h[DateStr(MaxOf(prior))])

\* The call found an entry of today and an earlier entry with another
\* value, and returned a delta.
C7_Witness ==
    /\ Returned(SeqThread)
    /\ "X" \in DOMAIN oi_results[SeqThread]
    /\ oi_results[SeqThread]["X"][2] # Null
    /\ LET h == History(oi_before[SeqThread], "X")
           today == oi_today[SeqThread]
       IN  /\ DateStr(today) \in DOMAIN h
           /\ PriorDays(h, today) # {}
           /\ h[DateStr(today)] # h[DateStr(MaxOf(PriorDays(h, today)))]

\* The history of X the two calls of the scenario leave: 100000 on day 1,
\* 105000 on day 2.
ScenarioHistory == DictPut(DictPut(EmptyDict, DateStr(1), 100000), DateStr(2), 105000)
\* The call of thread t was made on day d and found history h for X.
ScenarioCall(d, h) ==
    /\ Returned(SeqThread)
    /\ oi_today[SeqThread] = d
    /\ History(oi_before[SeqThread], "X") = h
    /\ "X" \in DOMAIN oi_results[SeqThread]
    /\ oi_results[SeqThread]["X"][1] # Null

\* C8 as stated: after the seed of day 1 and the call of day 2, the call of
\* day 9 returns (c, None) and evicts the entry of day 1.
C8_Original ==
    /\ ScenarioCall(2, DictPut(EmptyDict, DateStr(1), 100000))
         /\ oi_results[SeqThread]["X"][1] = Some(105000)
       => oi_results[SeqThread]["X"] = <<Some(105000), Some(5000)>>
    /\ ScenarioCall(9, ScenarioHistory)
       => /\ oi_results[SeqThread]["X"][2] = Null
          /\ DateStr(1) \notin DOMAIN History(oi_file, "X")

\* C8 amended: the call of day 9 finds the entry the call of day 2 stored,
\* seven days back, and returns (c, c - 105000); it evicts the entry of
\* day 1.  A call of day 10 instead returns (c, None) and evicts both.
C8_Scenario ==
    /\ ScenarioCall(2, DictPut(EmptyDict, DateStr(1), 100000))
         /\ oi_results[SeqThread]["X"][1] = Some(105000)
       => oi_results[SeqThread]["X"] = <<Some(105000), Some(5000)>>
    /\ ScenarioCall(9, ScenarioHistory)
       => /\ oi_results[SeqThread]["X"][2] =
                Some(oi_results[SeqThread]["X"][1][1] - 105000)
          /\ DateStr(1) \notin DOMAIN History(oi_file, "X")
          /\ DateStr(2) \in DOMAIN History(oi_file, "X")
    /\ ScenarioCall(10, ScenarioHistory)
       => /\ oi_results[SeqThread]["X"][2] = Null
          /\ DOMAIN History(oi_file, "X") = {DateStr(10)}

\* The call of day 9 of the scenario has returned.
C8_Witness == ScenarioCall(9, ScenarioHistory)

\* C9: the history of a symbol holds only dates of the eight days that end
\* with the day of the symbol's last write, so at most 8 entries.
C9_HistoryWindow ==
    \A s \in DOMAIN load_oi_cache(oi_file) :
        LET h == History(oi_file, s) IN
        /\ \A d \in DOMAIN h :
               \E n \in (oi_last_write[s] - 7)..oi_last_write[s] : d = DateStr(n)
        /\ Cardinality(DOMAIN h) <= 8

\* A call found eight entries, the oldest eight days old, and left eight.
C9_Witness ==
    /\ Returned(SeqThread)
    /\ Cardinality(DOMAIN History(oi_before[SeqThread], "X")) = 8
    /\ DateStr(oi_today[SeqThread] - 8) \in DOMAIN History(oi_before[SeqThread], "X")
    /\ oi_file = <<load_oi_cache(oi_file)>>
    /\ Cardinality(DOMAIN History(oi_file, "X")) = 8

\* The symbols of a call's input whose value is None.
NullSymbols(items) == {items[i][1] : i \in {j \in 1..Len(items) : items[j][2] = Null}}

\* C10 as stated: a call whose symbols all have the value None returns
\* (None, None) for each and neither reads nor writes nor creates the file.
C10_Original ==
    (Returned(SeqThread) /\ Written(oi_input[SeqThread]) = {})
    => /\ \A s \in NullSymbols(oi_input[SeqThread]) :
              oi_results[SeqThread][s] = <<Null, Null>>
       /\ oi_file = oi_before[SeqThread]
       /\ oi_loads[SeqThread] = 0
       /\ oi_saves[SeqThread] = 0

\* C10 amended: a symbol whose value is None gets (None, None) and its key
\* and entries are as the call found them; the call itself reads the file
\* once and writes it once, which creates it when absent.
C10_NullLeavesSymbolAlone ==
    Returned(SeqThread)
    => /\ \A s \in NullSymbols(oi_input[SeqThread]) :
              /\ oi_results[SeqThread][s] = <<Null, Null>>
              /\ (s \in DOMAIN load_oi_cache(oi_file))
                   = (s \in DOMAIN load_oi_cache(oi_before[SeqThread]))
              /\ History(oi_file, s) = History(oi_before[SeqThread], s)
       /\ oi_file # <<>>
       /\ oi_loads[SeqThread] = 1
       /\ oi_saves[SeqThread] = 1

\* A call gave None for a symbol that has old entries, and for another
\* symbol a value.
C10_Witness ==
    /\ Returned(SeqThread)
    /\ "X" \in NullSymbols(oi_input[SeqThread])
    /\ "Y" \in Written(oi_input[SeqThread])
    /\ \E n \in 1..MaxDay :
          /\ n < oi_today[SeqThread] - 7
          /\ DateStr(n) \in DOMAIN History(oi_file, "X")

(***************************************************************************)
(* IV term structure claims (SpecIV).                                      *)
(***************************************************************************)
Failures(log) == {j \in 1..Len(log) : ~log[j].ok}
IVRange(seq) == {seq[i] : i \in 1..Len(seq)}
LastOccurrence(i) == \A j \in (i + 1)..Len(iv_symbols) : iv_symbols[j] # iv_symbols[i]

\* C4: with max_retries = m >= 0, a wrapper that returned made k+1
\* attempts, the first k <= m failing and the last one succeeding, and
\* returned the value of that last attempt; a wrapper that raised made
\* exactly m+1 attempts, all failing, and raised the exception of the last
\* one; no wrapper ever makes more than m+1 attempts.
C4_RetryWrapper ==
    iv_max_retries >= 0 =>
        /\ Len(iv_log) <= iv_max_retries + 1
        /\ \A i \in 1..Len(iv_wrapper) :
             LET w == iv_wrapper[i]
                 n == Len(w.log)
             IN  /\ 1 <= n /\ n <= iv_max_retries + 1
                 /\ w.kind = "returned" =>
                      /\ Failures(w.log) = 1..(n - 1)
                      /\ w.value = w.log[n].value
                 /\ w.kind = "raised" =>
                      /\ Failures(w.log) = 1..n
                      /\ n = iv_max_retries + 1
                      /\ w.exc = n - 1

\* A symbol returned after a failed attempt and another raised after two.
C4_Witness ==
    /\ iv_max_retries >= 1
    /\ \E i \in 1..Len(iv_wrapper) :
         /\ iv_wrapper[i].kind = "returned"
         /\ Len(iv_wrapper[i].log) >= 2
         /\ is_valid(iv_wrapper[i].value)
    /\ \E i \in 1..Len(iv_wrapper) :
         /\ iv_wrapper[i].kind = "raised"
         /\ Len(iv_wrapper[i].log) >= 2

\* C5: fetch_iv_terms never raises; when it returns, every symbol of the
\* list has been processed, the keys of the map are exactly the requested
\* symbols, and a symbol whose wrapper raised maps to a default result
\* (the last occurrence of a repeated symbol decides its value).
C5_BatchNeverRaises ==
    /\ iv_pc # "raised"
    /\ iv_pc = "returned" =>
         /\ Len(iv_wrapper) = Len(iv_symbols)
         /\ DOMAIN iv_results = IVRange(iv_symbols)
         /\ \A i \in 1..Len(iv_symbols) :
              LastOccurrence(i) =>
                  iv_results[iv_symbols[i]] =
                      IF iv_wrapper[i].kind = "raised" THEN DefaultResult
                      ELSE iv_wrapper[i].value

\* The first of two symbols exhausted its retries and the second one got a
\* valid result.
C5_Witness ==
    /\ iv_pc = "returned"
    /\ iv_symbols = <<"A", "B">>
    /\ iv_max_retries >= 1
    /\ iv_wrapper[1].kind = "raised"
    /\ iv_results["A"] = DefaultResult
    /\ is_valid(iv_results["B"])

\* C6: a symbol for which the vendor had nothing at the first attempt
\* gets a default, not valid result from that first attempt: one attempt,
\* no backoff sleep, no snapshot request, and the batch does not raise.
C6_NoExpirations ==
    /\ \A i \in 1..Len(iv_wrapper) :
         LET w == iv_wrapper[i] IN
         w.log # <<>> /\ w.log[1].nothing =>
             /\ w.kind = "returned"
             /\ w.value = DefaultResult
             /\ ~is_valid(w.value)
             /\ Len(w.log) = 1
             /\ w.sleeps = <<>>
             /\ w.log[1].snapshot_requests = 0
             /\ iv_results[iv_symbols[i]] = DefaultResult \/ ~LastOccurrence(i)
    /\ (\E i \in 1..Len(iv_wrapper) :
          iv_wrapper[i].log # <<>> /\ iv_wrapper[i].log[1].nothing) => iv_pc # "raised"

\* A batch returned over an open session in which the vendor had nothing
\* for a symbol at its first attempt.
C6_Witness ==
    /\ iv_pc = "returned"
    /\ iv_max_retries >= 1
    /\ \E i \in 1..Len(iv_wrapper) :
         /\ iv_wrapper[i].log[1].nothing
         /\ iv_results[iv_symbols[i]] = DefaultResult
    /\ quote_ctx = "open"

C12_ConnectNeverRaises ==
    [][\A th \in Threads :
         (connect_impl(th) /\ exec[th].caller \in Callers) =>
             /\ last_result'[exec[th].caller] \in {"True", "False"}
             /\ last_result'[exec[th].caller] = "False" => ~is_connected_impl'
      ]_vars

\* Some caller waits for the future of a call it handed to the executor.
SomeCallWaits == \E c \in Callers : pc[c] = "waiting"

\* C13: a public method called from a body that runs on the worker thread
\* runs inline: no task of the executor was submitted by a worker and no
\* body waits for a nested call; and every call handed to the executor
\* returns to its caller (whenever a caller waits, a moment comes at which
\* no caller waits, so no wait lasts for ever).
C13_NestedRunsInline ==
    /\ [](\A i \in 1..Len(executor_queue) : executor_queue[i].caller \in Callers)
    /\ [](\A th \in Threads : exec[th].stage # "nested_wait")
    /\ SomeCallWaits ~> ~SomeCallWaits

\* The body of a data operation, on the worker thread, has made its nested
\* is_connected() call and gone on, with another call still in the queue.
C13_Witness ==
    \E w \in Workers :
        /\ worker_thread_id = w
        /\ exec[w].op \in DataOps
        /\ exec[w].stage \in {"fetch", "fail"}
        /\ executor_queue # <<>>

\* A step of thread th that uses the client object: _connect_impl (create,
\* isConnected, connect), _disconnect_impl, _is_connected_impl called from
\* the executor or inline, and the vendor requests of a data operation.
UsesClient(th) ==
    \/ connect_impl(th)
    \/ disconnect_impl(th)
    \/ is_connected_body(th)
    \/ NestedIsConnected(th) /\ exec'[th].stage \in {"fetch", "fail"}
    \/ DataFetch(th)

\* C14: every step that uses the client object is taken by the worker
\* thread of the executor, whichever caller thread called the public method
\* and also inside the composite operations.
C14_ClientOnWorker ==
    [][\A th \in Threads : UsesClient(th) => th \in Workers /\ th = worker_thread_id]_vars

\* The worker runs the vendor requests of a call made by a composite
\* operation, whose caller thread waits.
C14_Witness ==
    \E c \in Callers, w \in Workers :
        /\ last_op[c] \in CompositeOps
        /\ pc[c] = "waiting"
        /\ exec[w].caller = c
        /\ exec[w].stage = "fetch"

\* C15: while a connector operation is handed to the worker, the thread
\* that runs the host's scheduler is not blocked: it never waits for the
\* future of a call.
C15_SchedulerNeverBlocked == pc[SchedulerThread] # "waiting"

(***************************************************************************)
(* IV pipeline claims (SpecIV).                                            *)
(***************************************************************************)
\* C16: a result the pipeline returned without having built a DTE point
\* has every field null: iv7, iv30, iv60, iv90 and total_oi.
C16_NoPointNoFields ==
    \A i \in 1..Len(iv_wrapper) :
        LET w == iv_wrapper[i] IN
        (w.kind = "returned" /\ w.log[Len(w.log)].points = 0) => w.value = DefaultResult

(***************************************************************************)
(* Interpolator claim (SpecInterp).                                        *)
(***************************************************************************)
PointsBelow == {i \in 1..Len(it_points) : it_points[i][1] < it_target}
PointsAbove == {i \in 1..Len(it_points) : it_points[i][1] > it_target}
PointsExact == {i \in 1..Len(it_points) : it_points[i][1] = it_target}
\* The points below the target with the greatest dte, and those above it
\* with the smallest.
NearestBelow == {i \in PointsBelow : \A j \in PointsBelow : it_points[j][1] <= it_points[i][1]}
NearestAbove == {i \in PointsAbove : \A j \in PointsAbove : it_points[j][1] >= it_points[i][1]}

\* C17: for points sorted by dte the interpolator returns null for no
\* point, the IV of a single point whatever the target, the IV of a point
\* at the target when there is one, otherwise the variance interpolation of
\* the nearest point below and the nearest point above, and with points on
\* one side only the IV of the nearest point of that side.
C17_Interpolator ==
    it_done =>
        IF it_points = <<>> THEN it_result = Null
        ELSE IF Len(it_points) = 1 THEN it_result = Some(it_points[1][2])
        ELSE IF PointsExact # {}
             THEN \E i \in PointsExact : it_result = Some(it_points[i][2])
        ELSE IF PointsBelow # {} /\ PointsAbove # {}
             THEN \E i \in NearestBelow, j \in NearestAbove :
                      it_result = <<"sqrt_var", it_points[i][1], it_points[i][2],
                                    it_points[j][1], it_points[j][2], it_target>>
        ELSE IF PointsBelow # {}
             THEN \E i \in NearestBelow : it_result = Some(it_points[i][2])
        ELSE \E i \in NearestAbove : it_result = Some(it_points[i][2])

\* The interpolator was given three points, two of them below the target
\* with different IVs and one above, and has returned.
C17_Witness ==
    /\ it_done
    /\ Len(it_points) = 3
    /\ PointsExact = {}
    /\ Cardinality(PointsBelow) = 2
    /\ PointsAbove # {}
    /\ it_points[1][1] < it_points[2][1]
    /\ it_points[1][2] # it_points[2][2]

(***************************************************************************)
(* Snapshot claim (SpecSnapshot).                                          *)
(***************************************************************************)
\* The codes of the chunks whose request was answered with records.
AnsweredCodes ==
    UNION {{Chunk(sn_codes, k)[i] : i \in 1..Len(Chunk(sn_codes, k))} :
           k \in {j \in 1..Len(sn_responses) : sn_responses[j] \in {"full", "oi_only"}}}

\* C18: whatever way the snapshot request of a chunk fails, by a non-OK
\* status or by an exception, the call goes on to the other chunks and
\* returns a map that holds the record of every code of every chunk that
\* was answered.
C18_ChunkFailureSkipped ==
    sn_done =>
        /\ ~sn_result.raised
        /\ Len(sn_responses) = NumChunks(sn_codes)
        /\ AnsweredCodes \subseteq DOMAIN sn_result.snapshot_map

(***************************************************************************)
(* RateLimiter under concurrent callers (SpecRLConc).                      *)
(***************************************************************************)
\* C20: with several threads inside acquire() at once, under every
\* interleaving of their evict, check, sleep and record steps, no trailing
\* window of rl_period ticks ending at any time up to now holds more than
\* rl_max_calls recorded calls.
C20_ConcurrentWindowQuota ==
    \A t \in 0..clock :
        Cardinality({j \in 1..Len(admitted) :
                        admitted[j] > t - rl_period /\ admitted[j] <= t}) <= rl_max_calls

(***************************************************************************)
(* Session claim (SpecOrch).                                               *)
(***************************************************************************)
\* C19: after any sequence of orchestrator and connector connect and
\* disconnect calls, at most one session per vendor is open in the process.
C19_OneSessionPerVendor ==
    \A v \in Vendors : Cardinality(open_sessions[v]) <= 1

(***************************************************************************)
(* Orchestrator singleton and status claims (SpecSingleton, SpecOrch).     *)
(***************************************************************************)
\* C21: between two resets every get_orchestrator() returns the same
\* instance, which is none of those returned before the latest reset; and
\* a reset closes the session held by each connector of the instance.
C21_Singleton ==
    /\ [](Cardinality(gets) <= 1 /\ gets \cap retired = {})
    /\ [][ResetOrchestrator =>
            \A v \in Vendors :
                /\ conn_session[v] \notin open_sessions'[v]
                /\ open_sessions'[v] \subseteq open_sessions[v]]_vars

\* A second instance is in use after a reset that closed a session.
C21_Witness ==
    /\ gets = {2}
    /\ retired = {1}
    /\ \E v \in Vendors : sessions_opened[v] = 1 /\ open_sessions[v] = {}

\* C22: the recorded flag of a broker is false for a fresh orchestrator
\* and, after any connect_* and disconnect_* calls, true only if the latest
\* orchestrator call for that broker was a connect that returned success.
C22_StatusFlag ==
    \A v \in Vendors : broker_status[v] => last_call[v] = "connect_ok"

\* A connect succeeded, and later attempts and disconnects cleared the flag.
C22_Witness ==
    /\ broker_status["ibkr"] /\ last_call["ibkr"] = "connect_ok"
    /\ ~broker_status["futu"] /\ last_call["futu"] = "disconnect"
    /\ sessions_opened["futu"] > 0

(***************************************************************************)
(* Retry backoff claim (SpecRetry).                                        *)
(***************************************************************************)
\* The failed attempts of a log that are followed by another attempt.
FollowedFailures(log) == {j \in Failures(log) : j < Len(log)}

\* C23: the j-th sleep of the wrapper, the one between attempt j-1 and
\* attempt j, lasts min(30, 2^(j-1)) seconds; there is no sleep before the
\* first attempt, and when the wrapper has ended it has slept once for
\* every failed attempt that was followed by another attempt, so never
\* after the last one.
C23_BackoffSleeps ==
    /\ \A j \in 1..Len(iv_sleeps) :
         iv_sleeps[j] = IF 2 ^ (j - 1) < 30 THEN 2 ^ (j - 1) ELSE 30
    /\ iv_log = <<>> => iv_sleeps = <<>>
    /\ iv_pc = "symbol" => Len(iv_sleeps) = Len(iv_log)
    /\ iv_pc = "backoff" => Len(iv_sleeps) = Len(iv_log) - 1
    /\ \A i \in 1..Len(iv_wrapper) :
         LET w == iv_wrapper[i] IN
         /\ Len(w.sleeps) = Cardinality(FollowedFailures(w.log))
         /\ \A j \in 1..Len(w.sleeps) :
              w.sleeps[j] = IF 2 ^ (j - 1) < 30 THEN 2 ^ (j - 1) ELSE 30

\* A wrapper ended after sleeps that reached the ceiling of 30 seconds.
C23_Witness ==
    \E i \in 1..Len(iv_wrapper) :
        /\ Len(iv_wrapper[i].log) = 7
        /\ iv_wrapper[i].sleeps = <<1, 2, 4, 8, 16, 30>>

(***************************************************************************)
(* Expiration collector claim (SpecCollect).                               *)
(***************************************************************************)
\* The windows worked so far are in order, pairwise disjoint, inside
\* [0, ce_end_date], and none ends more than 30 days after its start.
WindowsDisjoint ==
    /\ \A i \in 1..Len(ce_windows) :
         /\ 0 <= ce_windows[i][1] /\ ce_windows[i][1] <= ce_windows[i][2]
         /\ ce_windows[i][2] <= ce_end_date
         /\ ce_windows[i][2] - ce_windows[i][1] <= 30
    /\ \A i \in 1..Len(ce_windows), j \in 1..Len(ce_windows) :
         i < j => ce_windows[i][2] < ce_windows[j][1]

\* For every window worked: an acquire, the CALL request of that window, an
\* acquire, the PUT request of that window, whatever the responses; and
\* nothing else.
FourEventsPerWindow ==
    /\ Len(ce_events) = 4 * Len(ce_windows)
    /\ \A i \in 1..Len(ce_windows) :
         /\ ce_events[4 * i - 3].kind = "acquire"
         /\ ce_events[4 * i - 2].kind = "request"
         /\ ce_events[4 * i - 2].option_type = "CALL"
         /\ ce_events[4 * i - 2].window = ce_windows[i]
         /\ ce_events[4 * i - 1].kind = "acquire"
         /\ ce_events[4 * i].kind = "request"
         /\ ce_events[4 * i].option_type = "PUT"
         /\ ce_events[4 * i].window = ce_windows[i]

\* Once the collector has returned, every date of the horizon is in
\* exactly one window.
EveryDateOnce ==
    ce_done =>
        \A d \in 0..ce_end_date :
            Cardinality({i \in 1..Len(ce_windows) :
                            ce_windows[i][1] <= d /\ d <= ce_windows[i][2]}) = 1

\* C24: for any max_days >= 0 the collector returns; its windows are
\* pairwise disjoint, each at most 30 days long, and hold every date of
\* [today, today + max_days] exactly once; each window gets one acquire and
\* one chain request per option type, CALL then PUT, also when a request
\* fails.
C24_CollectorWindows ==
    /\ [](WindowsDisjoint /\ FourEventsPerWindow /\ EveryDateOnce)
    /\ <>ce_done

\* The collector returned after three windows, the first with a request
\* that raised and one that returned a non-OK status.
C24_Witness ==
    /\ ce_done
    /\ ce_end_date = 62
    /\ ce_windows = << <<0, 30>>, <<31, 61>>, <<62, 62>> >>
    /\ ce_events[2].response = "raise"
    /\ ce_events[4].response = "fail"

(***************************************************************************)
(* Snapshot chunking claim (SpecSnapshot).                                 *)
(***************************************************************************)
\* The batches of the snapshot requests made, in order.
RequestBatches ==
    [k \in 1..(Len(sn_events) \div 2) |-> sn_events[2 * k].batch]

\* C25: for a list of L codes the fetcher makes exactly ceil(L/400)
\* snapshot requests, each of at most 400 codes and each right after one
\* acquire of the snapshot limiter; every code of the list is in exactly
\* one request, and the keys of the map returned are codes of the list.
C25_ChunkedRequests ==
    sn_done =>
        LET L == Len(sn_codes)
            n == Len(RequestBatches)
        IN  /\ n * 400 >= L /\ (n = 0 \/ (n - 1) * 400 < L)
            /\ Len(sn_events) = 2 * n
            /\ \A k \in 1..n :
                 /\ sn_events[2 * k - 1].kind = "acquire"
                 /\ sn_events[2 * k].kind = "request"
                 /\ Len(RequestBatches[k]) <= 400
            /\ \A i \in 1..L :
                 Cardinality({k \in 1..n :
                     \E j \in 1..Len(RequestBatches[k]) :
                         RequestBatches[k][j] = sn_codes[i]}) = 1
            /\ ~sn_result.raised
            /\ DOMAIN sn_result.snapshot_map \subseteq {sn_codes[i] : i \in 1..L}

(***************************************************************************)
(* ATM selector claim (SpecPick).                                          *)
(***************************************************************************)
\* The call contracts of the list whose snapshot has a delta and an IV.
Eligible ==
    {i \in 1..Len(pa_contracts) :
        /\ pa_contracts[i].option_type = "CALL"
        /\ pa_contracts[i].code \in DOMAIN pa_snapshot_map
        /\ pa_snapshot_map[pa_contracts[i].code].delta # Null
        /\ pa_snapshot_map[pa_contracts[i].code].iv # Null}
DeltaDistance(i) ==
    LET d == pa_snapshot_map[pa_contracts[i].code].delta[1] - 50 IN
    IF d < 0 THEN -d ELSE d
PercentIV(i) ==
    LET iv == pa_snapshot_map[pa_contracts[i].code].iv[1] IN
    IF iv <= 150 THEN iv * 100 ELSE iv

\* C26: the selector returns null when no call contract has both a delta
\* and an IV in its snapshot; otherwise it returns the IV, as a percentage,
\* of the first contract in list order among the eligible calls whose
\* delta is closest to 0.5.  Puts and contracts lacking a field are never
\* chosen.
C26_AtmSelection ==
    pa_done =>
        IF Eligible = {} THEN pa_result = Null
        ELSE LET best == CHOOSE i \in Eligible :
                            \A j \in Eligible :
                                \/ DeltaDistance(i) < DeltaDistance(j)
                                \/ DeltaDistance(i) = DeltaDistance(j) /\ i <= j
             IN  pa_result = <<PercentIV(best)>>

\* Deltas 0.30 and 0.70 tie behind an ineligible put with delta 0.50: the
\* first of the two calls is chosen.
C26_Witness ==
    /\ pa_done
    /\ Len(pa_contracts) = 3
    /\ pa_contracts[1].option_type = "PUT"
    /\ "1" \in DOMAIN pa_snapshot_map /\ pa_snapshot_map["1"].delta = <<50>>
    /\ Eligible = {2, 3}
    /\ pa_snapshot_map["2"].delta = <<30>>
    /\ pa_snapshot_map["3"].delta = <<70>>
    /\ pa_result = <<2502>>

(***************************************************************************)
(* Chain request claim (SpecChain).                                        *)
(***************************************************************************)
\* The four forms with dates that the client does not reject, by position.
Accepted ==
    {i \in 1..4 :
        gc_client[<<"start/end", "begin_time/end_time", "start_time/end_time",
                    "start_date/end_date">>[i]] # "type_error"}

\* C27: the forms of the request are tried in the order start/end,
\* begin_time/end_time, start_time/end_time, start_date/end_date; the call
\* ends with what the client gives for the first form it does not reject
\* with a TypeError, and tries none after it; the request without dates is
\* made only after all four were rejected, and when it fails the call
\* returns a non-OK status and does not raise.
C27_VariantOrder ==
    LET order == <<"start/end", "begin_time/end_time", "start_time/end_time",
                   "start_date/end_date", "no_dates">>
    IN  /\ Len(gc_tried) <= 5
        /\ \A i \in 1..Len(gc_tried) : gc_tried[i] = order[i]
        /\ gc_done /\ gc_tried # <<>> =>
             IF Accepted # {}
             THEN LET first == CHOOSE i \in Accepted : \A j \in Accepted : i <= j IN
                  /\ Len(gc_tried) = first
                  /\ gc_client[order[first]] = "ok" => gc_result = ChainReturned("RET_OK")
                  /\ gc_client[order[first]] = "fail" => gc_result = ChainReturned("RET_ERROR")
                  /\ gc_client[order[first]] = "raise" => gc_result.kind = "raised"
             ELSE /\ Len(gc_tried) = 5
                  /\ gc_result.kind = "returned"
                  /\ gc_result.ret = "RET_OK" <=> gc_client["no_dates"] = "ok"

\* All four forms with dates were rejected and the request without dates
\* raised: the call returned the status -1.
C27_Witness ==
    /\ gc_done
    /\ Len(gc_tried) = 5
    /\ gc_client["no_dates"] = "raise"
    /\ gc_result = ChainReturned("-1")

(***************************************************************************)
(* Snapshot quota claim (SpecSnapshotQuota).                               *)
(***************************************************************************)
\* C28: every snapshot request the vendor client receives comes after an
\* acquire of the snapshot limiter of its own, so no trailing window of
\* rl_period ticks holds more than rl_max_calls snapshot requests.
C28_SnapshotQuota ==
    /\ Len(snapshot_sent) <= Len(admitted)
    /\ \A i \in 1..Len(snapshot_sent) :
         Cardinality({j \in 1..Len(snapshot_sent) :
                         /\ snapshot_sent[j] > snapshot_sent[i] - rl_period
                         /\ snapshot_sent[j] <= snapshot_sent[i]}) <= rl_max_calls

(***************************************************************************)
(* IV result shape claim (SpecIV).                                         *)
(***************************************************************************)
NoIVField(r) == r.iv7 = <<>> /\ r.iv30 = <<>> /\ r.iv60 = <<>> /\ r.iv90 = <<>>
EveryIVField(r) == r.iv7 # <<>> /\ r.iv30 # <<>> /\ r.iv60 # <<>> /\ r.iv90 # <<>>
\* The result the batch records for a wrapper, and the DTE points built by
\* the attempt that ended it.
RecordedResult(w) == IF w.kind = "returned" THEN w.value ELSE DefaultResult
PointsBuilt(w) == IF w.log = <<>> THEN 0 ELSE w.log[Len(w.log)].points

\* C29: in every result of the IV pipeline iv7, iv30, iv60 and iv90 are all
\* null or all non-null, and at least one of them is non-null exactly when
\* at least one DTE point was built for the symbol.
C29_AllOrNoIVFields ==
    /\ \A i \in 1..Len(iv_wrapper) :
         LET r == RecordedResult(iv_wrapper[i]) IN
         /\ NoIVField(r) \/ EveryIVField(r)
         /\ ~NoIVField(r) <=> PointsBuilt(iv_wrapper[i]) >= 1
    /\ \A sym \in DOMAIN iv_results :
         NoIVField(iv_results[sym]) \/ EveryIVField(iv_results[sym])

\* One symbol got its four fields from two points, iv7 between them, and
\* another symbol of the batch got none.
C29_Witness ==
    /\ iv_pc = "returned"
    /\ DOMAIN iv_results = {"A", "B"}
    /\ Len(iv_wrapper) = 2
    /\ PointsBuilt(iv_wrapper[1]) = 2
    /\ Len(iv_results["A"].iv7) = 6
    /\ EveryIVField(iv_results["A"])
    /\ NoIVField(iv_results["B"])

(***************************************************************************)
(* Repeated delta-OI call claim (SpecOI).                                  *)
(***************************************************************************)
\* The step is a call of batch_compute_delta_oi that repeats the previous
\* call: made on the day of that call, with its input.
RepeatedCall ==
    /\ oi_ncalls' = oi_ncalls + 1
    /\ Returned(SeqThread)
    /\ oi_today[SeqThread] = day
    /\ oi_input'[SeqThread] = oi_input[SeqThread]

\* C30: a call of batch_compute_delta_oi that repeats the previous call on
\* the same day with the same input returns the same (currentOI, delta) for
\* every symbol and leaves the store as the previous call left it.
C30_SameDayRepeat ==
    [][RepeatedCall => /\ oi_results'[SeqThread] = oi_results[SeqThread]
                       /\ oi_file' = oi_file]_vars

\* The third call of a run stored 105000 for X on a day on which X had
\* 105000 already, found an earlier entry of another value, returned a
\* delta and left the store as it found it.
C30_Witness ==
    /\ Returned(SeqThread)
    /\ oi_ncalls = 3
    /\ oi_input[SeqThread] = <<<<"X", Some(105000)>>>>
    /\ oi_before[SeqThread] = oi_file
    /\ LET h == History(oi_before[SeqThread], "X")
           today == oi_today[SeqThread]
       IN  /\ DateStr(today) \in DOMAIN h
           /\ h[DateStr(today)] = 105000
           /\ PriorDays(h, today) # {}
    /\ oi_results[SeqThread]["X"] = <<Some(105000), Some(5000)>>

=============================================================================
